---- MODULE Spec2Model ----
(***************************************************************************)
(* Model of the rsID annotation pipeline of ayouballah/rsID_retrieval.     *)
(*                                                                         *)
(* The annotation stage (core/entrez_api.py) is modelled as a state        *)
(* machine: a main thread that runs annotate_vcf_with_entrez and, on       *)
(* failure, annotate_vcf_with_entrez_sequential; a pool of worker threads  *)
(* that run fetch_rsid_batch; and the lookups fetch_rsid_entrez that the   *)
(* threads make through the shared semaphore _rate_limiter.                *)
(*                                                                         *)
(* The other stages are functions from a file to a file or a verdict, and  *)
(* are modelled as operators that a specification of their own applies to  *)
(* the files of a bounded set: the chromosome notations (SpecChromosome),  *)
(* validate_vcf_file (SpecValidate), the position transforms, the custom   *)
(* transform and clean_vcf (SpecStage), the quality filter and the summary *)
(* report (SpecReport).                                                    *)
(*                                                                         *)
(* Four further specifications run on the same variables: the two          *)
(* pipelines process_vcf and run_sandbox_pipeline around the annotation    *)
(* stage (SpecPipeline), the parallel and the sequential strategy on one   *)
(* input and one service (SpecStrategies), the spacing of the requests of  *)
(* one thread on a clock of ticks (SpecSpacing), and the annotation stage  *)
(* under weak fairness of its steps (SpecFair).                            *)
(*                                                                         *)
(* Strings are sequences of one-character strings, so that startswith,     *)
(* join, strip and split are computed and not assumed.  A line of a file   *)
(* is the sequence of its tab-separated fields (the line terminator left   *)
(* out); a field is a string without white space, possibly empty.          *)
(***************************************************************************)
EXTENDS Integers, Sequences, FiniteSets

\* ------------------------------------------------------------------ bounds

\* Largest number of lines of an input file.
MaxLines == 3

\* Number of threads of the worker pool (max_workers is 1 in
\* core/entrez_api.py and 4 in rsID_retrieval.py).
MaxWorkers == 2

\* ------------------------------------------------------- program constants

\* threading.Semaphore(1)
RateLimiterPermits == 1

\* max_retries=5
max_retries == 5

\* batch_size = 2
batch_size == 2

\* Largest number of lines after the column line of the file of a stage.
MaxRows == 2

\* Largest number of lines after the column line of a validated file.
MaxDataLines == 5

\* Transform A: pos_modifier=55758218
pos_modifier == 55758218

\* Position modification constants for CES1A2-CES1 mapping
LOW_POS_THRESHOLD == 2358
HIGH_POS_THRESHOLD == 32634
BASE_OFFSET == 55758218
HIGH_OFFSET_BASE == 55834270
HIGH_OFFSET_SUBTRACT == 72745

\* filter_significant_rsids: qual_threshold=20.0
qual_threshold == 20

\* generate_summary_report: vcf_qual_numeric >= 20
ReliableQual == 20

\* The data lines validate_vcf_file looks at: range(min(3, ...))
SampleRows == 3

\* The last of the chromosomes normalize_chrom keeps: 1 <= n <= 21
LastAutosome == 21

\* The minimum interval between two requests of a thread, in ticks of 0.1 s:
\* 0.5 s in core/entrez_api.py, 0.3 s in rsID_retrieval.py.
min_interval == 5
script_min_interval == 3

\* The unit of the backoff after a failed request, 1.5 s, in ticks.
backoff_unit == 15

\* The ticks the clock of a thread is followed for after its last request.
MaxTicks == 6

\* ----------------------------------------------------------------- strings

DOT == <<".">>

NORSID == <<"N", "O", "R", "S", "I", "D">>

RS == <<"r", "s">>

EMPTY == <<>>

\* fetch_rsid_entrez returns None (falsy) when there is no identifier.
None == <<>>

\* str.startswith
StartsWith(s, p) == Len(s) >= Len(p) /\ SubSeq(s, 1, Len(p)) = p

\* ','.join(list)
RECURSIVE Join(_)
Join(list) ==
    IF list = <<>> THEN <<>>
    ELSE IF Len(list) = 1 THEN list[1]
    ELSE list[1] \o <<",">> \o Join(Tail(list))

\* current_id == "." or current_id == "NORSID"
IsUnknown(id) == id = DOT \/ id = NORSID

Min(a, b) == IF a < b THEN a ELSE b

\* ----------------------------------------------------------------- parsing

\* line.startswith('#'), on the raw line
IsHeader(line) == line[1] # EMPTY /\ Head(line[1]) = "#"

\* line.strip(): tabs and the line terminator are white space, so the empty
\* fields at both ends of the line go.  A blank line strips to "".
RECURSIVE LStrip(_)
LStrip(line) ==
    IF Len(line) > 1 /\ line[1] = EMPTY THEN LStrip(Tail(line)) ELSE line

RECURSIVE RStrip(_)
RStrip(line) ==
    IF Len(line) > 1 /\ line[Len(line)] = EMPTY
    THEN RStrip(SubSeq(line, 1, Len(line) - 1))
    ELSE line

Strip(line) == RStrip(LStrip(line))

\* the truth value of line.strip()
NonBlank(line) == Strip(line) # <<EMPTY>>

\* header_lines = [line for line in lines if line.startswith('#')]
HeaderLines(lines) == SelectSeq(lines, IsHeader)

IsDataLine(line) == ~IsHeader(line) /\ NonBlank(line)

\* data_lines = [line.strip() for line in lines
\*               if not line.startswith('#') and line.strip()]
DataLines(lines) ==
    LET kept == SelectSeq(lines, IsDataLine)
    IN  [i \in 1..Len(kept) |-> Strip(kept[i])]

\* One row of vcf_data from the parts of a line of at least 6 fields.
ParseRow(parts) ==
    IF Len(parts) >= 7 THEN SubSeq(parts, 1, 7)
    ELSE parts \o <<EMPTY>>

\* len(parts) >= 6; shorter lines are skipped
WellFormedSeven(parts) == Len(parts) >= 7

WellFormed(parts) == Len(parts) >= 6

\* vcf_data: the rows of the DataFrame, in the order of the file
ParseFile(lines) ==
    LET kept == SelectSeq(DataLines(lines), WellFormed)
    IN  [i \in 1..Len(kept) |-> ParseRow(kept[i])]

CHROM == 1
POS == 2
ID == 3
REF == 4
ALT == 5
QUAL == 6
SAMPLE == 7

\* batches: batch i // batch_size holds the rows i .. min(i + batch_size,
\* total_rows) - 1, each as (j, (CHROM, POS, ID)).  Batch b is batches[b + 1].
NumBatches(total_rows) == (total_rows + batch_size - 1) \div batch_size

MakeBatches(vcf) ==
    [n \in 1..NumBatches(Len(vcf)) |->
        LET i  == (n - 1) * batch_size
            hi == Min(i + batch_size, Len(vcf))
        IN  [k \in 1..(hi - i) |->
                LET j == i + k - 1
                IN  <<j, <<vcf[j + 1][CHROM], vcf[j + 1][POS], vcf[j + 1][ID]>>>>]]

\* The dummy results of a failed batch:
\* [(i, "NORSID") for i in range(batch_idx * batch_size,
\*                                min((batch_idx + 1) * batch_size, total_rows))]
DummyResultsNoMin(batch_idx, total_rows) ==
    [k \in 1..batch_size |-> <<batch_idx * batch_size + k - 1, NORSID>>]

DummyResults(batch_idx, total_rows) ==
    LET lo == batch_idx * batch_size
        hi == Min((batch_idx + 1) * batch_size, total_rows)
    IN  [k \in 1..(hi - lo) |-> <<lo + k - 1, NORSID>>]

\* vcf.at[variant_idx, 'ID'] = rsid; a label that is not in the frame
\* enlarges it by a row whose other cells are NaN.
NaN == <<"n", "a", "n">>

SetID(vcf, variant_idx, rsid) ==
    IF variant_idx + 1 \in DOMAIN vcf
    THEN [vcf EXCEPT ![variant_idx + 1][ID] = rsid]
    ELSE Append(vcf, <<NaN, NaN, rsid, NaN, NaN, NaN, NaN>>)

RECURSIVE ApplyBatch(_, _)
ApplyBatch(vcf, results) ==
    IF results = <<>> THEN vcf
    ELSE ApplyBatch(SetID(vcf, results[1][1], results[1][2]), Tail(results))

\* batch_results is a dict: a sequence of <<batch_idx, results>> in the
\* order of insertion.
Keys(batch_results) == {batch_results[n][1] : n \in DOMAIN batch_results}

Lookup(batch_results, batch_idx) ==
    LET n == CHOOSE n \in DOMAIN batch_results : batch_results[n][1] = batch_idx
    IN  batch_results[n][2]

\* batch_results[batch_idx] = results
Store(batch_results, batch_idx, results) ==
    IF batch_idx \in Keys(batch_results)
    THEN [n \in DOMAIN batch_results |->
            IF batch_results[n][1] = batch_idx
            THEN <<batch_idx, results>> ELSE batch_results[n]]
    ELSE Append(batch_results, <<batch_idx, results>>)

\* sorted(batch_results.keys())
RECURSIVE Sorted(_)
Sorted(keys) ==
    IF keys = {} THEN <<>>
    ELSE LET m == CHOOSE m \in keys : \A k \in keys : m <= k
         IN  <<m>> \o Sorted(keys \ {m})

\* The rows taken from the results in the order the batches were collected.
RECURSIVE RowsAsCompleted(_, _)
RowsAsCompleted(vcf, results) ==
    IF results = <<>> THEN <<>>
    ELSE <<[vcf[results[1][1] + 1] EXCEPT ![ID] = results[1][2]]>>
         \o RowsAsCompleted(vcf, Tail(results))

RECURSIVE ConcatResults(_)
ConcatResults(batch_results) ==
    IF batch_results = <<>> THEN <<>>
    ELSE batch_results[1][2] \o ConcatResults(Tail(batch_results))

ApplyResultsAsCompleted(vcf, batch_results) ==
    RowsAsCompleted(vcf, ConcatResults(batch_results))

\* for batch_idx in sorted(batch_results.keys()):
\*     for variant_idx, rsid in batch_results[batch_idx]:
\*         vcf.at[variant_idx, 'ID'] = rsid
RECURSIVE ApplySorted(_, _, _)
ApplySorted(vcf, batch_results, keys) ==
    IF keys = <<>> THEN vcf
    ELSE ApplySorted(ApplyBatch(vcf, Lookup(batch_results, keys[1])),
                     batch_results, Tail(keys))

ApplyResults(vcf, batch_results) ==
    ApplySorted(vcf, batch_results, Sorted(Keys(batch_results)))

\* The file written: the header lines of the input, then one line of the 7
\* columns per row of the frame.
WriteVcf(lines, vcf) == HeaderLines(lines) \o vcf

\* Count newly annotated variants in this batch:
\* rsid.startswith('rs') and vcf.iloc[variant_idx]['ID'] in ['.', 'NORSID']
CountAnnotatedEveryRs(vcf, results) ==
    Cardinality({k \in DOMAIN results : StartsWith(results[k][2], RS)})

RECURSIVE CountAnnotated(_, _)
CountAnnotated(vcf, results) ==
    IF results = <<>> THEN 0
    ELSE (IF StartsWith(results[1][2], RS) /\ IsUnknown(vcf[results[1][1] + 1][ID])
          THEN 1 ELSE 0) + CountAnnotated(vcf, Tail(results))

\* int(completed / total * 100)
Percent(completed, total) == (completed * 100) \div total

\* ------------------------------------------------------------ remote lookup

\* What one request to the remote service does: it raises (network error,
\* non-success response, malformed payload) or it answers with an IdList.
Outcomes ==
    { [raises |-> TRUE,  IdList |-> <<>>],
      [raises |-> FALSE, IdList |-> <<>>],
      [raises |-> FALSE, IdList |-> << <<"1">>, <<"2">> >>] }

\* No request is made when Entrez.email is not set.
NoRequest == [raises |-> FALSE, IdList |-> <<>>]

\* rsids = [f"rs{rsid}" for rsid in record["IdList"]]; ','.join(rsids)
RsList(IdList) == Join([n \in DOMAIN IdList |-> RS \o IdList[n]])

\* One pass of the retry loop of fetch_rsid_entrez, for the attempt numbered
\* from 0 and the outcome of its request.  done: the lookup leaves the
\* rate-limited section; raised: by raising to its caller; ret: the value
\* returned; requested: a request was sent; attempt: the next attempt.
FetchAttemptGiveUpEarly(email, attempt, outcome) ==
    IF ~email
    THEN [done |-> TRUE, raised |-> FALSE, ret |-> None,
          requested |-> FALSE, attempt |-> attempt]
    ELSE IF outcome.raises
    THEN IF attempt < max_retries - 2
         THEN [done |-> FALSE, raised |-> FALSE, ret |-> None,
               requested |-> TRUE, attempt |-> attempt + 1]
         ELSE [done |-> TRUE, raised |-> FALSE, ret |-> None,
               requested |-> TRUE, attempt |-> attempt]
    ELSE [done |-> TRUE, raised |-> FALSE,
          ret |-> IF outcome.IdList # <<>> THEN RsList(outcome.IdList) ELSE None,
          requested |-> TRUE, attempt |-> attempt]

FetchAttemptReraise(email, attempt, outcome) ==
    IF ~email
    THEN [done |-> TRUE, raised |-> FALSE, ret |-> None,
          requested |-> FALSE, attempt |-> attempt]
    ELSE IF outcome.raises
    THEN IF attempt < max_retries - 1
         THEN [done |-> FALSE, raised |-> FALSE, ret |-> None,
               requested |-> TRUE, attempt |-> attempt + 1]
         ELSE [done |-> TRUE, raised |-> TRUE, ret |-> None,
               requested |-> TRUE, attempt |-> attempt]
    ELSE [done |-> TRUE, raised |-> FALSE,
          ret |-> IF outcome.IdList # <<>> THEN RsList(outcome.IdList) ELSE None,
          requested |-> TRUE, attempt |-> attempt]

FetchAttempt(email, attempt, outcome) ==
    IF ~email
    THEN [done |-> TRUE, raised |-> FALSE, ret |-> None,
          requested |-> FALSE, attempt |-> attempt]
    ELSE IF outcome.raises
    THEN IF attempt < max_retries - 1
         THEN [done |-> FALSE, raised |-> FALSE, ret |-> None,
               requested |-> TRUE, attempt |-> attempt + 1]
         ELSE [done |-> TRUE, raised |-> FALSE, ret |-> None,
               requested |-> TRUE, attempt |-> attempt]
    ELSE [done |-> TRUE, raised |-> FALSE,
          ret |-> IF outcome.IdList # <<>> THEN RsList(outcome.IdList) ELSE None,
          requested |-> TRUE, attempt |-> attempt]

\* str.replace(old, ""): every occurrence of old goes, from the left.
RECURSIVE Remove(_, _)
Remove(s, old) ==
    IF Len(s) < Len(old) \/ old = <<>> THEN s
    ELSE IF SubSeq(s, 1, Len(old)) = old
         THEN Remove(SubSeq(s, Len(old) + 1, Len(s)), old)
         ELSE <<s[1]>> \o Remove(Tail(s), old)

\* str.split(sep)[0], for a separator of one character
RECURSIVE SplitFirst(_, _)
SplitFirst(s, sep) ==
    IF s = <<>> \/ s[1] = sep THEN <<>>
    ELSE <<s[1]>> \o SplitFirst(Tail(s), sep)

NC_ == <<"N", "C", "_">>
NC_0000 == <<"N", "C", "_", "0", "0", "0", "0">>
CHR_AND == <<"[", "C", "H", "R", "]", " ", "A", "N", "D", " ">>
POS_ == <<"[", "P", "O", "S", "]">>

\* chrom_num: the number of a RefSeq accession, any other token as it is
ChromNum(chromosome) ==
    IF StartsWith(chromosome, NC_)
    THEN SplitFirst(Remove(chromosome, NC_0000), ".")
    ELSE chromosome

\* query = f"{chrom_num}[CHR] AND {position}[POS]"
Query(chromosome, position) ==
    ChromNum(chromosome) \o CHR_AND \o position \o POS_

\* rsid if rsid else "NORSID"
OrNORSID(rsid) == IF rsid # None THEN rsid ELSE NORSID

\* The semaphore: a thread enters the section when a permit is left.
CanAcquireOffByOne(p) == p >= 0

CanAcquire(p) == p > 0

\* The end of the with block, on every way out of it: the permit goes back.
ReleaseOnlyOnResult(p, ret) == IF ret # None THEN p + 1 ELSE p

Release(p, ret) == p + 1

\* ------------------------------------------------------------------- input

Digit == <<"1", "2", "3", "4", "5", "6", "7", "8", "9">>

\* The fields of the lines the model reads.
F16 == <<"1", "6">>
FNC16 == <<"N", "C", "_", "0", "0", "0", "0", "1", "6", ".", "1", "0">>
FRS9 == <<"r", "s", "9">>
FA == <<"A">>
FG == <<"G">>
F30 == <<"3", "0">>
F50 == <<"5", "0">>
FS == <<"0", "/", "1">>
FPASS == <<"P", "A", "S", "S">>
FCOL == <<"#", "C", "H", "R", "O", "M">>

\* The position of line n: every line has its own.
Pos(n) == <<"9", Digit[n]>>

Kinds == {"unknown7", "known6", "norsid10", "noqual6", "blank", "header"}

\* unknown7: 7 columns, ID "."; known6: 6 columns (no SAMPLE), ID rs9;
\* norsid10: the 10 columns of a full VCF line, ID "NORSID"; noqual6: 6
\* columns of which the last is empty; blank: an empty line; header: a line
\* that starts with '#'.
Line(kind, n) ==
    CASE kind = "unknown7" -> <<F16, Pos(n), DOT, FA, FG, F30, FS>>
      [] kind = "known6"   -> <<F16, Pos(n), FRS9, FA, FG, F50>>
      [] kind = "norsid10" -> <<FNC16, Pos(n), NORSID, FA, FG, F30,
                                FPASS, DOT, DOT, FS>>
      [] kind = "noqual6"  -> <<F16, Pos(n), DOT, FA, FG, EMPTY>>
      [] kind = "blank"    -> <<EMPTY>>
      [] kind = "header"   -> <<FCOL, Pos(n)>>

InputFiles ==
    UNION { { [n \in 1..len |-> Line(kinds[n], n)] : kinds \in [1..len -> Kinds] }
            : len \in 0..MaxLines }

\* ------------------------------------------------------------------- state

MainThread == 0
Workers == 1..MaxWorkers
Threads == {MainThread} \cup Workers

VARIABLES
    file,               \* the lines of the input file
    emailSet,           \* Entrez.email is set
    observer,           \* progress_callback is not None
    pc,                 \* where the main thread is
    vcf,                \* the DataFrame of the running strategy
    batches,            \* the batches submitted to the pool
    fut,                \* the future of each batch
    th,                 \* each thread: its batch, its lookup
    permits,            \* the permits left in _rate_limiter
    batch_results,      \* the dict filled by the as_completed loop
    failed,             \* the batches logged as failed
    completed_batches,
    annotated_count,
    reported,           \* the values passed to progress_callback
    out,                \* the lines of the output file
    result,             \* the dict returned to the caller
    seqRuns,            \* the calls of annotate_vcf_with_entrez_sequential
    idx,                \* the row of the sequential loop
    lookup,             \* the lookup of a caller of fetch_rsid_entrez alone
    stage               \* the run of one stage or function other than annotation

vars ==
    <<stage, lookup, file, emailSet, observer, pc, vcf, batches, fut, th, permits,
      batch_results, failed, completed_batches, annotated_count, reported,
      out, result, seqRuns, idx>>

IdleThread ==
    [b |-> -1, k |-> 0, results |-> <<>>, lk |-> "idle", attempt |-> 0,
     erred |-> FALSE]

IdleLookup ==
    [st |-> "idle", chromosome |-> <<>>, position |-> <<>>, query |-> <<>>,
     attempt |-> 0, hist |-> <<>>, ret |-> None, stored |-> <<>>]

\* No stage other than annotation is running.
NoStage == [st |-> "none"]

NoResult ==
    [success |-> FALSE, total_variants |-> -1, annotated_count |-> -1,
     message |-> <<"", "">>]

Init ==
    /\ file \in InputFiles
    /\ emailSet \in BOOLEAN
    /\ observer \in BOOLEAN
    /\ pc = "start"
    /\ vcf = <<>>
    /\ batches = <<>>
    /\ fut = <<>>
    /\ th = [t \in Threads |-> IdleThread]
    /\ permits = RateLimiterPermits
    /\ batch_results = <<>>
    /\ failed = {}
    /\ completed_batches = 0
    /\ annotated_count = 0
    /\ reported = <<>>
    /\ out = <<>>
    /\ result = NoResult
    /\ seqRuns = 0
    /\ idx = 0
    /\ lookup = IdleLookup
    /\ stage = NoStage

\* ----------------------------------------------- annotate_vcf_with_entrez

total_rows == Len(vcf)

\* The locals of the parallel strategy, gone once it has raised.
ParallelLocalsGone ==
    /\ vcf' = <<>>
    /\ batches' = <<>>
    /\ fut' = <<>>
    /\ batch_results' = <<>>
    /\ failed' = {}
    /\ completed_batches' = 0
    /\ annotated_count' = 0

\* shutil.copy2, the read of the input, the parse, the batches and their
\* submission to the pool.  copy2 may raise (the two paths name one file, the
\* directory of the output is missing); an input without a valid row raises
\* ValueError after the copy.
ParallelStart ==
    /\ pc = "start"
    /\ \E io \in {"ok", "copy2 raises"} :
          IF io = "copy2 raises"
          THEN /\ pc' = "fallback"
               /\ UNCHANGED <<out, vcf, batches, fut>>
          ELSE /\ out' = file
               /\ IF ParseFile(file) # <<>>
                  THEN /\ vcf' = ParseFile(file)
                       /\ batches' = MakeBatches(vcf')
                       /\ fut' = [n \in DOMAIN batches' |->
                                     [st |-> "pending", results |-> <<>>]]
                       /\ pc' = "collect"
                  ELSE /\ pc' = "fallback"
                       /\ UNCHANGED <<vcf, batches, fut>>
    /\ UNCHANGED <<stage, lookup, file, emailSet, observer, th, permits, batch_results,
                   failed, completed_batches, annotated_count, reported,
                   result, seqRuns, idx>>

\* fetch_rsid_batch, one variant: a row with a concrete ID keeps it, a row
\* with "." or "NORSID" is looked up.
LooksUpEveryRow(current_id) == FALSE

KeepsID(current_id) == ~IsUnknown(current_id)

\* The loop of fetch_rsid_batch from the k-th variant of the batch on, up to
\* the next call of fetch_rsid_entrez: the rows with a concrete ID passed on
\* the way are appended to the results as they are.  k is the variant to
\* look up, or past the end when the loop is over.
RECURSIVE RunBatch(_, _, _)
RunBatch(variants, k, results) ==
    IF k > Len(variants) \/ ~KeepsID(variants[k][2][3])
    THEN [k |-> k, results |-> results]
    ELSE RunBatch(variants, k + 1,
                  Append(results, <<variants[k][1], variants[k][2][3]>>))

\* Where fetch_rsid_batch stands after RunBatch: it waits for the permit of
\* its next lookup, or it has returned (batch_idx, results) and the future of
\* the batch is done.
WorkerAt(batch_idx, at) ==
    IF at.k > Len(batches[batch_idx + 1])
    THEN IdleThread
    ELSE [IdleThread EXCEPT !.b = batch_idx, !.k = at.k,
                            !.results = at.results, !.lk = "wait"]

FutureAt(batch_idx, at) ==
    IF at.k > Len(batches[batch_idx + 1])
    THEN [st |-> "finished", results |-> at.results]
    ELSE [st |-> "running", results |-> <<>>]

\* A thread of the pool takes the oldest batch of the work queue and runs
\* fetch_rsid_batch on it up to its first lookup.  The idle threads of the
\* pool are interchangeable: the lowest-numbered one takes the batch.
TakeBatch(w) ==
    /\ pc = "collect"
    /\ th[w].b = -1
    /\ \A v \in Workers : th[v].b = -1 => w <= v
    /\ \E n \in DOMAIN fut :
          /\ fut[n].st = "pending"
          /\ \A m \in DOMAIN fut : fut[m].st = "pending" => n <= m
          /\ LET at == RunBatch(batches[n], 1, <<>>)
             IN  /\ fut' = [fut EXCEPT ![n] = FutureAt(n - 1, at)]
                 /\ th' = [th EXCEPT ![w] = WorkerAt(n - 1, at)]
    /\ UNCHANGED <<stage, lookup, file, emailSet, observer, pc, vcf, batches, permits,
                   batch_results, failed, completed_batches, annotated_count,
                   reported, out, result, seqRuns, idx>>

\* The variant a worker is at: (variant_idx, (chromosome, position, current_id))
Variant(w) == batches[th[w].b + 1][th[w].k]

\* with _rate_limiter: a thread enters the rate-limited section.
Acquire(t) ==
    /\ th[t].lk = "wait"
    /\ CanAcquire(permits)
    /\ permits' = permits - 1
    /\ th' = [th EXCEPT ![t].lk = "in", ![t].attempt = 0, ![t].erred = FALSE]
    /\ UNCHANGED <<stage, lookup, file, emailSet, observer, pc, vcf, batches, fut,
                   batch_results, failed, completed_batches, annotated_count,
                   reported, out, result, seqRuns, idx>>

OutcomeChoices == IF emailSet THEN Outcomes ELSE {NoRequest}

\* The service of a run that answers each query with a fixed answer: the
\* outcome of the first request with a query is the outcome of every later
\* request with it.  stage.service[query] holds the outcomes still open.
ServiceChoices(query) ==
    IF emailSet /\ stage.st = "service" THEN stage.service[query]
    ELSE OutcomeChoices

Answered(query, outcome) ==
    IF emailSet /\ stage.st = "service"
    THEN [stage EXCEPT !.service[query] = {outcome}]
    ELSE stage

\* A worker's lookup makes one attempt.  When the lookup is over the permit
\* goes back, fetch_rsid_batch appends the identifiers or "NORSID" and goes
\* on up to its next lookup; were the lookup to raise, the future of the
\* batch would hold the exception.  erred: a request of the last lookup
\* raised.
WorkerRequest(w) ==
    /\ w \in Workers
    /\ th[w].lk = "in"
    /\ \E o \in ServiceChoices(Query(Variant(w)[2][1], Variant(w)[2][2])) :
          LET r == FetchAttempt(emailSet, th[w].attempt, o)
              b == th[w].b
          IN  /\ stage' = Answered(Query(Variant(w)[2][1], Variant(w)[2][2]), o)
              /\ IF ~r.done
                 THEN /\ th' = [th EXCEPT ![w].attempt = r.attempt, ![w].erred = TRUE]
                      /\ UNCHANGED <<permits, fut>>
                 ELSE /\ permits' = Release(permits, r.ret)
                      /\ IF r.raised
                         THEN /\ fut' = [fut EXCEPT ![b + 1].st = "raised"]
                              /\ th' = [th EXCEPT ![w] = IdleThread]
                         ELSE LET at == RunBatch(batches[b + 1], th[w].k + 1,
                                           Append(th[w].results,
                                                  <<Variant(w)[1], OrNORSID(r.ret)>>))
                              IN  /\ fut' = [fut EXCEPT ![b + 1] = FutureAt(b, at)]
                                  /\ th' = [th EXCEPT ![w] =
                                         [WorkerAt(b, at) EXCEPT
                                             !.erred = IF at.k > Len(batches[b + 1])
                                                       THEN FALSE
                                                       ELSE th[w].erred \/ o.raises]]
    /\ UNCHANGED <<lookup, file, emailSet, observer, pc, vcf, batches, batch_results,
                   failed, completed_batches, annotated_count, reported, out,
                   result, seqRuns, idx>>

\* One turn of the as_completed loop, for a future that is over and was not
\* yielded yet.  Whatever raises inside the try (future.result(), the
\* observer) lands in the except clause, which stores the dummy results.
Collect(batch_idx) ==
    /\ pc = "collect"
    /\ batch_idx + 1 \in DOMAIN fut
    /\ fut[batch_idx + 1].st \in {"finished", "raised"}
    /\ batch_idx \notin Keys(batch_results)
    /\ IF fut[batch_idx + 1].st = "raised"
       THEN /\ batch_results' =
                  Store(batch_results, batch_idx, DummyResults(batch_idx, total_rows))
            /\ failed' = failed \cup {batch_idx}
            /\ UNCHANGED <<completed_batches, annotated_count, reported>>
       ELSE LET results == fut[batch_idx + 1].results
                stored  == Store(batch_results, batch_idx, results)
            IN  /\ completed_batches' = completed_batches + 1
                /\ annotated_count' = annotated_count + CountAnnotated(vcf, results)
                /\ IF observer
                   THEN /\ reported' = Append(reported,
                                Percent(completed_batches', Len(batches)))
                        /\ \E callback \in {"returns", "raises"} :
                              IF callback = "raises"
                              THEN /\ batch_results' = Store(stored, batch_idx,
                                          DummyResults(batch_idx, total_rows))
                                   /\ failed' = failed \cup {batch_idx}
                              ELSE /\ batch_results' = stored
                                   /\ UNCHANGED failed
                   ELSE /\ batch_results' = stored
                        /\ UNCHANGED <<failed, reported>>
    /\ UNCHANGED <<stage, lookup, file, emailSet, observer, pc, vcf, batches, fut, th, permits,
                   out, result, seqRuns, idx>>

\* After the pool has shut down: the results go back to the frame and the
\* output is written; open(..., 'w') may raise.
ParallelFinish ==
    /\ pc = "collect"
    /\ Keys(batch_results) = {n - 1 : n \in DOMAIN fut}
    /\ \E io \in {"ok", "write raises"} :
          IF io = "ok"
          THEN /\ vcf' = ApplyResults(vcf, batch_results)
               /\ out' = WriteVcf(file, vcf')
               /\ result' = [success |-> TRUE,
                             total_variants |-> total_rows,
                             annotated_count |-> annotated_count,
                             message |-> <<"Parallel Entrez annotation complete", "">>]
               /\ pc' = "done"
               /\ UNCHANGED <<batches, fut, batch_results, failed,
                              completed_batches, annotated_count>>
          ELSE /\ ParallelLocalsGone
               /\ pc' = "fallback"
               /\ UNCHANGED <<out, result>>
    /\ UNCHANGED <<stage, lookup, file, emailSet, observer, th, permits, reported, seqRuns, idx>>

\* -------------------------------------- annotate_vcf_with_entrez_sequential

\* The dict returned by the except clause of the sequential strategy.
SequentialFailed(cause) ==
    [success |-> FALSE, total_variants |-> 0, annotated_count |-> 0,
     message |-> <<"Sequential annotation failed", cause>>]

\* The fallback of annotate_vcf_with_entrez: the except clause calls the
\* sequential strategy, which reads and parses the input again.
FallbackReturnsFailure ==
    /\ pc = "fallback"
    /\ result' = [success |-> FALSE, total_variants |-> 0, annotated_count |-> 0,
                  message |-> <<"Parallel Entrez annotation failed", "OSError">>]
    /\ pc' = "done"
    /\ UNCHANGED <<stage, lookup, file, emailSet, observer, vcf, batches, fut, th,
                   permits, batch_results, failed, completed_batches,
                   annotated_count, reported, out, seqRuns, idx>>

SequentialStart ==
    /\ pc = "fallback"
    /\ seqRuns' = seqRuns + 1
    /\ \E io \in {"ok", "open raises"} :
          IF io = "open raises"
          THEN /\ result' = SequentialFailed("OSError")
               /\ pc' = "done"
               /\ UNCHANGED <<vcf, idx, annotated_count>>
          ELSE IF ParseFile(file) = <<>>
          THEN /\ result' = SequentialFailed("No valid variant data found in VCF file")
               /\ pc' = "done"
               /\ UNCHANGED <<vcf, idx, annotated_count>>
          ELSE /\ vcf' = ParseFile(file)
               /\ idx' = 0
               /\ annotated_count' = 0
               /\ pc' = "seq_loop"
               /\ UNCHANGED result
    /\ UNCHANGED <<stage, lookup, file, emailSet, observer, batches, fut, th, permits,
                   batch_results, failed, completed_batches, reported, out>>

\* elif progress_callback and (idx % 10 == 0 or idx == total_rows - 1)
ReportsRowEveryTenth(i, total) == observer /\ i % 10 = 0

ReportsRow(i, total) == observer /\ (i % 10 = 0 \/ i = total - 1)

\* The end of one turn of the sequential loop: the observer is told, and may
\* raise, which ends the strategy in its except clause.
SeqEndOfRow ==
    IF ReportsRow(idx, total_rows)
    THEN /\ reported' = Append(reported, Percent(idx + 1, total_rows))
         /\ \E callback \in {"returns", "raises"} :
               IF callback = "raises"
               THEN /\ result' = SequentialFailed("observer raised")
                    /\ pc' = "done"
                    /\ UNCHANGED idx
               ELSE /\ idx' = idx + 1
                    /\ UNCHANGED <<result, pc>>
    ELSE /\ idx' = idx + 1
         /\ UNCHANGED <<reported, result, pc>>

\* One row of the sequential loop: a row with a concrete ID is passed by, a
\* row with "." or "NORSID" is looked up by the main thread.
SeqRow ==
    /\ pc = "seq_loop"
    /\ idx < total_rows
    /\ th[MainThread].lk = "idle"
    /\ IF KeepsID(vcf[idx + 1][ID])
       THEN /\ SeqEndOfRow
            /\ UNCHANGED th
       ELSE /\ th' = [th EXCEPT ![MainThread].lk = "wait"]
            /\ UNCHANGED <<reported, result, pc, idx>>
    /\ UNCHANGED <<stage, lookup, file, emailSet, observer, vcf, batches, fut, permits,
                   batch_results, failed, completed_batches, annotated_count,
                   out, seqRuns>>

\* The main thread's lookup makes one attempt.  When the lookup is over the
\* permit goes back, the identifier found (or "NORSID") is stored in the
\* frame and counted, and the turn of the loop ends.
SeqRequest ==
    /\ pc = "seq_loop"
    /\ th[MainThread].lk = "in"
    /\ \E o \in ServiceChoices(Query(vcf[idx + 1][CHROM], vcf[idx + 1][POS])) :
          LET r == FetchAttempt(emailSet, th[MainThread].attempt, o)
          IN  /\ stage' = Answered(Query(vcf[idx + 1][CHROM], vcf[idx + 1][POS]), o)
              /\ IF ~r.done
                 THEN /\ th' = [th EXCEPT ![MainThread].attempt = r.attempt,
                                          ![MainThread].erred = TRUE]
                      /\ UNCHANGED <<permits, vcf, annotated_count, reported,
                                     result, pc, idx>>
                 ELSE /\ permits' = Release(permits, r.ret)
                      /\ th' = [th EXCEPT ![MainThread] = IdleThread]
                      /\ IF r.raised
                         THEN /\ result' = SequentialFailed("lookup raised")
                              /\ pc' = "done"
                              /\ UNCHANGED <<vcf, annotated_count, reported, idx>>
                         ELSE /\ vcf' = SetID(vcf, idx, OrNORSID(r.ret))
                              /\ annotated_count' =
                                   annotated_count +
                                   (IF OrNORSID(r.ret) # NORSID THEN 1 ELSE 0)
                              /\ SeqEndOfRow
    /\ UNCHANGED <<lookup, file, emailSet, observer, batches, fut, batch_results,
                   failed, completed_batches, out, seqRuns>>

\* After the loop the output is written; open(..., 'w') may raise.
SeqFinish ==
    /\ pc = "seq_loop"
    /\ idx = total_rows
    /\ \E io \in {"ok", "write raises"} :
          IF io = "ok"
          THEN /\ out' = WriteVcf(file, vcf)
               /\ result' = [success |-> TRUE,
                             total_variants |-> total_rows,
                             annotated_count |-> annotated_count,
                             message |-> <<"Sequential annotation complete", "">>]
          ELSE /\ result' = SequentialFailed("OSError")
               /\ UNCHANGED out
    /\ pc' = "done"
    /\ UNCHANGED <<stage, lookup, file, emailSet, observer, vcf, batches, fut, th, permits,
                   batch_results, failed, completed_batches, annotated_count,
                   reported, seqRuns, idx>>

\* ------------------------------------------------- fetch_rsid_entrez alone

FCHR16 == <<"c", "h", "r", "1", "6">>
F7 == <<"7">>
FNC07 == <<"N", "C", "_", "0", "0", "0", "0", "0", "7", ".", "1", "0">>

\* The chromosome tokens a caller passes.
Chromosomes == {F16, FCHR16, FNC16, F7, FNC07}

\* The positions a caller passes.
Positions == {Pos(n) : n \in 1..MaxLines}

\* A caller calls fetch_rsid_entrez(chromosome, position) and waits for a
\* permit of the rate limiter.
LookupCall ==
    /\ lookup.st \in {"idle", "returned"}
    /\ \E c \in Chromosomes, p \in Positions :
          lookup' = [IdleLookup EXCEPT !.st = "wait", !.chromosome = c,
                                       !.position = p, !.query = Query(c, p)]
    /\ UNCHANGED <<stage, file, emailSet, observer, pc, vcf, batches, fut, th,
                   permits, batch_results, failed, completed_batches,
                   annotated_count, reported, out, result, seqRuns, idx>>

LookupAcquire ==
    /\ lookup.st = "wait"
    /\ CanAcquire(permits)
    /\ permits' = permits - 1
    /\ lookup' = [lookup EXCEPT !.st = "in", !.attempt = 0]
    /\ UNCHANGED <<stage, file, emailSet, observer, pc, vcf, batches, fut, th,
                   batch_results, failed, completed_batches, annotated_count,
                   reported, out, result, seqRuns, idx>>

\* One attempt of the lookup; hist keeps what each request of the lookup
\* did.  When the lookup is over the permit goes back and the caller stores
\* the identifiers or "NORSID", as fetch_rsid_batch does.
LookupRequest ==
    /\ lookup.st = "in"
    /\ \E o \in OutcomeChoices :
          LET r == FetchAttempt(emailSet, lookup.attempt, o)
              h == IF r.requested THEN Append(lookup.hist, o) ELSE lookup.hist
          IN  IF ~r.done
              THEN /\ lookup' = [lookup EXCEPT !.attempt = r.attempt, !.hist = h]
                   /\ UNCHANGED permits
              ELSE /\ permits' = Release(permits, r.ret)
                   /\ lookup' = [lookup EXCEPT
                          !.st = IF r.raised THEN "raised" ELSE "returned",
                          !.hist = h,
                          !.ret = r.ret,
                          !.stored = IF r.raised THEN <<>> ELSE OrNORSID(r.ret)]
    /\ UNCHANGED <<stage, file, emailSet, observer, pc, vcf, batches, fut, th,
                   batch_results, failed, completed_batches, annotated_count,
                   reported, out, result, seqRuns, idx>>

\* --------------------------------------------------------- specification

Next ==
    \/ ParallelStart
    \/ \E w \in Workers : TakeBatch(w)
    \/ \E t \in Threads : Acquire(t)
    \/ \E w \in Workers : WorkerRequest(w)
    \/ \E b \in 0..MaxLines : Collect(b)
    \/ ParallelFinish
    \/ SequentialStart
    \/ SeqRow
    \/ SeqRequest
    \/ SeqFinish

Spec == Init /\ [][Next]_vars

\* The callers of fetch_rsid_entrez alone: no file is annotated.
LookupInit ==
    /\ file = <<>>
    /\ emailSet \in BOOLEAN
    /\ observer = FALSE
    /\ pc = "lookup"
    /\ vcf = <<>>
    /\ batches = <<>>
    /\ fut = <<>>
    /\ th = [t \in Threads |-> IdleThread]
    /\ permits = RateLimiterPermits
    /\ batch_results = <<>>
    /\ failed = {}
    /\ completed_batches = 0
    /\ annotated_count = 0
    /\ reported = <<>>
    /\ out = <<>>
    /\ result = NoResult
    /\ seqRuns = 0
    /\ idx = 0
    /\ lookup = IdleLookup
    /\ stage = NoStage

LookupNext ==
    \/ LookupCall
    \/ LookupAcquire
    \/ LookupRequest

SpecLookup == LookupInit /\ [][LookupNext]_vars

\* ------------------------------------------------------- the run to its end

\* The files of the runs followed to their end.
FairKinds == {"unknown7", "known6", "blank"}

FairFiles(max) ==
    UNION { { [n \in 1..len |-> Line(kinds[n], n)] :
                 kinds \in [1..len -> FairKinds] } : len \in 0..max }

FairInit ==
    /\ file \in FairFiles(MaxLines)
    /\ emailSet \in BOOLEAN
    /\ observer \in BOOLEAN
    /\ pc = "start"
    /\ vcf = <<>>
    /\ batches = <<>>
    /\ fut = <<>>
    /\ th = [t \in Threads |-> IdleThread]
    /\ permits = RateLimiterPermits
    /\ batch_results = <<>>
    /\ failed = {}
    /\ completed_batches = 0
    /\ annotated_count = 0
    /\ reported = <<>>
    /\ out = <<>>
    /\ result = NoResult
    /\ seqRuns = 0
    /\ idx = 0
    /\ lookup = IdleLookup
    /\ stage = NoStage

\* The scheduler runs a thread that can run, a request sent to the service
\* returns or raises, and a thread blocked on the semaphore is woken when a
\* permit is free: as long as a step of the run is possible, one is taken.
Fairness == WF_vars(Next)

SpecFair == FairInit /\ [][Next]_vars /\ Fairness

\* ----------------------------------------- the two strategies on one input

\* The queries of the rows of a file.
QueriesOf(lines) ==
    {Query(ParseFile(lines)[i][CHROM], ParseFile(lines)[i][POS]) :
        i \in DOMAIN ParseFile(lines)}

\* The files the two strategies are compared on: lines looked up under both
\* notations of the chromosome, lines with an identifier, header lines.
StrategyKinds == {"unknown7", "known6", "norsid10", "header"}

StrategyFiles(max) ==
    UNION { { [n \in 1..len |-> Line(kinds[n], n)] :
                 kinds \in [1..len -> StrategyKinds] } : len \in 0..max }

NotReturned == [returned |-> FALSE, out |-> <<>>, result |-> NoResult, failed |-> {}]

\* A caller annotates a file with annotate_vcf_with_entrez and then with
\* annotate_vcf_with_entrez_sequential, against a service that answers each
\* query with a fixed answer.
StrategiesInit ==
    /\ file \in StrategyFiles(MaxLines)
    /\ emailSet \in BOOLEAN
    /\ observer \in BOOLEAN
    /\ pc = "start"
    /\ vcf = <<>>
    /\ batches = <<>>
    /\ fut = <<>>
    /\ th = [t \in Threads |-> IdleThread]
    /\ permits = RateLimiterPermits
    /\ batch_results = <<>>
    /\ failed = {}
    /\ completed_batches = 0
    /\ annotated_count = 0
    /\ reported = <<>>
    /\ out = <<>>
    /\ result = NoResult
    /\ seqRuns = 0
    /\ idx = 0
    /\ lookup = IdleLookup
    /\ stage = [st |-> "service",
                service |-> [q \in QueriesOf(file) |-> Outcomes],
                parallel |-> NotReturned]

\* The parallel strategy has returned; the caller keeps what it returned and
\* wrote, and calls the sequential strategy on the same input.
CallSequential ==
    /\ stage.st = "service"
    /\ ~stage.parallel.returned
    /\ pc = "done"
    /\ seqRuns = 0
    /\ stage' = [stage EXCEPT !.parallel =
                    [returned |-> TRUE, out |-> out, result |-> result,
                     failed |-> failed]]
    /\ ParallelLocalsGone
    /\ out' = <<>>
    /\ result' = NoResult
    /\ pc' = "fallback"
    /\ UNCHANGED <<lookup, file, emailSet, observer, th, permits, reported,
                   seqRuns, idx>>

StrategiesNext ==
    \/ Next
    \/ CallSequential

SpecStrategies == StrategiesInit /\ [][StrategiesNext]_vars

\* ====================================== the stages other than annotation

\* The variables of the annotation stage, and their values while another
\* stage or function runs.
annotation ==
    <<lookup, file, emailSet, observer, pc, vcf, batches, fut, th, permits,
      batch_results, failed, completed_batches, annotated_count, reported,
      out, result, seqRuns, idx>>

NoAnnotation ==
    /\ file = <<>>
    /\ emailSet = FALSE
    /\ observer = FALSE
    /\ pc = "none"
    /\ vcf = <<>>
    /\ batches = <<>>
    /\ fut = <<>>
    /\ th = [t \in Threads |-> IdleThread]
    /\ permits = RateLimiterPermits
    /\ batch_results = <<>>
    /\ failed = {}
    /\ completed_batches = 0
    /\ annotated_count = 0
    /\ reported = <<>>
    /\ out = <<>>
    /\ result = NoResult
    /\ seqRuns = 0
    /\ idx = 0
    /\ lookup = IdleLookup

\* ------------------------------------------------------ numbers as strings

Digits == <<"0", "1", "2", "3", "4", "5", "6", "7", "8", "9">>

IsDigit(c) == \E d \in 1..10 : Digits[d] = c

DigitValue(c) == (CHOOSE d \in 1..10 : Digits[d] = c) - 1

\* str.isdigit(): not empty, digits only
IsDigitString(s) == s # <<>> /\ \A i \in 1..Len(s) : IsDigit(s[i])

\* int(s) of a string of digits
RECURSIVE ParseDigits(_)
ParseDigits(s) ==
    IF s = <<>> THEN 0
    ELSE 10 * ParseDigits(SubSeq(s, 1, Len(s) - 1)) + DigitValue(s[Len(s)])

\* str(n) of an integer
RECURSIVE Str(_)
Str(n) ==
    IF n < 0 THEN <<"-">> \o Str(0 - n)
    ELSE IF n < 10 THEN <<Digits[n + 1]>>
    ELSE Str(n \div 10) \o <<Digits[(n % 10) + 1]>>

\* f"{n:0{width}d}" of a string of digits
RECURSIVE ZeroPad(_, _)
ZeroPad(s, width) == IF Len(s) >= width THEN s ELSE ZeroPad(<<"0">> \o s, width)

\* s.lstrip('0')
RECURSIVE LStripZeros(_)
LStripZeros(s) ==
    IF s # <<>> /\ s[1] = "0" THEN LStripZeros(Tail(s)) ELSE s

\* str.strip() of a token: the blanks at both ends go
RECURSIVE StripBlanks(_)
StripBlanks(s) ==
    IF s # <<>> /\ s[1] = " " THEN StripBlanks(Tail(s))
    ELSE IF s # <<>> /\ s[Len(s)] = " "
         THEN StripBlanks(SubSeq(s, 1, Len(s) - 1))
         ELSE s

\* The letters of the chromosome tokens, lower case and upper case.
Letters ==
    <<<<"c", "C">>, <<"h", "H">>, <<"r", "R">>, <<"n", "N">>,
      <<"x", "X">>, <<"y", "Y">>, <<"m", "M">>, <<"t", "T">>>>

\* str.lower() and str.upper()
Lower(s) ==
    [i \in 1..Len(s) |->
        IF \E l \in 1..Len(Letters) : Letters[l][2] = s[i]
        THEN Letters[CHOOSE l \in 1..Len(Letters) : Letters[l][2] = s[i]][1]
        ELSE s[i]]

Upper(s) ==
    [i \in 1..Len(s) |->
        IF \E l \in 1..Len(Letters) : Letters[l][1] = s[i]
        THEN Letters[CHOOSE l \in 1..Len(Letters) : Letters[l][1] = s[i]][2]
        ELSE s[i]]

\* The length of the run of digits a string starts with.
RECURSIVE DigitRun(_)
DigitRun(s) ==
    IF s = <<>> \/ ~IsDigit(s[1]) THEN 0 ELSE 1 + DigitRun(Tail(s))

\* re.findall(r"(\d+)", s): the maximal runs of digits, from the left
RECURSIVE FindAllDigits(_)
FindAllDigits(s) ==
    IF s = <<>> THEN <<>>
    ELSE IF ~IsDigit(s[1]) THEN FindAllDigits(Tail(s))
    ELSE <<SubSeq(s, 1, DigitRun(s))>>
         \o FindAllDigits(SubSeq(s, DigitRun(s) + 1, Len(s)))

\* ------------------------------------------------------ chromosome tokens

CHR == <<"c", "h", "r">>
DOT_10 == <<".", "1", "0">>
FX == <<"X">>
FY == <<"Y">>
FM == <<"M">>
FMT == <<"M", "T">>

\* SandboxProcessor._format_chromosome
\* numeric_chrom = chrom_id.replace("chr", "").replace("NC_0000", "").split(".")[0]
numeric_chrom(chrom_id) ==
    SplitFirst(Remove(Remove(chrom_id, CHR), NC_0000), ".")

FormatTypes == {"RefSeq", "UCSC", "Ensembl", "numeric", "other"}

_format_chromosome(chrom_id, format_type) ==
    LET nc == numeric_chrom(chrom_id)
    IN  CASE format_type = "RefSeq" ->
                IF IsDigitString(nc)
                THEN NC_ \o ZeroPad(Str(ParseDigits(nc)), 6) \o DOT_10
                ELSE NC_0000 \o nc \o DOT_10
          [] format_type = "UCSC" -> CHR \o nc
          [] format_type = "Ensembl" -> nc
          [] format_type = "numeric" -> nc
          [] OTHER -> chrom_id

\* normalize_chrom: str(n) when 1 <= n <= 21, None otherwise
InAutosomes(n) == IF 1 <= n /\ n <= LastAutosome THEN Str(n) ELSE None

\* val = nums[-1].lstrip('0') or '0'; n = int(val)
LastNumber(nums) ==
    LET val == IF LStripZeros(nums[Len(nums)]) = <<>> THEN <<"0">>
               ELSE LStripZeros(nums[Len(nums)])
    IN  ParseDigits(val)

normalize_chrom(chrom) ==
    IF chrom = <<>> THEN None
    ELSE
    LET stripped == StripBlanks(chrom)
        c == IF StartsWith(Lower(stripped), CHR)
             THEN SubSeq(stripped, 4, Len(stripped))
             ELSE stripped
        nums == FindAllDigits(c)
    IN  IF StartsWith(Upper(c), NC_) /\ nums # <<>>
        THEN InAutosomes(LastNumber(nums))
        ELSE IF Upper(c) \in {FX, FY, FM, FMT} THEN None
        ELSE IF IsDigitString(c) THEN InAutosomes(ParseDigits(c))
        ELSE IF nums # <<>> THEN InAutosomes(LastNumber(nums))
        ELSE None

\* The notations of the chromosome n a caller passes.
Notations == {"bare", "chr", "RefSeq"}

Notation(n, notation) ==
    CASE notation = "bare" -> Str(n)
      [] notation = "chr" -> CHR \o Str(n)
      [] notation = "RefSeq" -> NC_0000 \o ZeroPad(Str(n), 2) \o DOT_10

ChromIds ==
    {Notation(n, notation) : n \in 1..LastAutosome, notation \in Notations}
    \cup {FX, CHR \o FX}

\* A caller formats a chromosome token, then normalizes the formatted token.
ChromosomeInit ==
    /\ NoAnnotation
    /\ \E c \in ChromIds, t \in FormatTypes :
          stage = [st |-> "chrom_id", chrom_id |-> c, format_type |-> t,
                   formatted |-> <<>>, normalized |-> <<>>]

FormatChromosome ==
    /\ stage.st = "chrom_id"
    /\ stage' = [stage EXCEPT
          !.st = "formatted",
          !.formatted = _format_chromosome(stage.chrom_id, stage.format_type)]
    /\ UNCHANGED annotation

NormalizeChrom ==
    /\ stage.st = "formatted"
    /\ stage' = [stage EXCEPT !.st = "normalized",
                              !.normalized = normalize_chrom(stage.formatted)]
    /\ UNCHANGED annotation

ChromosomeNext ==
    \/ FormatChromosome
    \/ NormalizeChrom

SpecChromosome == ChromosomeInit /\ [][ChromosomeNext]_vars

\* ------------------------------------------------------- validate_vcf_file

\* The column names of a VCF file.
COL_POS == <<"P", "O", "S">>
COL_ID == <<"I", "D">>
COL_REF == <<"R", "E", "F">>
COL_ALT == <<"A", "L", "T">>
COL_QUAL == <<"Q", "U", "A", "L">>
COL_FILTER == <<"F", "I", "L", "T", "E", "R">>
COL_INFO == <<"I", "N", "F", "O">>
COL_FORMAT == <<"F", "O", "R", "M", "A", "T">>
COL_SAMPLE == <<"S", "A", "M", "P", "L", "E">>

\* required_columns = ['#CHROM', 'POS', 'ID', 'REF', 'ALT', 'QUAL', 'FILTER']
required_columns ==
    <<FCOL, COL_POS, COL_ID, COL_REF, COL_ALT, COL_QUAL, COL_FILTER>>

\* line.startswith('##') and line.startswith('#CHROM'), on the raw line
IsMetaLine(line) == StartsWith(line[1], <<"#", "#">>)

IsColumnLine(line) == StartsWith(line[1], FCOL)

\* int(s) of a field: blanks around it, a sign, digits.  IsIntString tells
\* whether int(s) returns, IntOf what it returns.
Unsigned(s) ==
    LET t == StripBlanks(s)
    IN  IF t # <<>> /\ t[1] \in {"-", "+"} THEN Tail(t) ELSE t

IsIntString(s) == IsDigitString(Unsigned(s))

IntOf(s) ==
    LET t == StripBlanks(s)
    IN  IF t[1] = "-" THEN 0 - ParseDigits(Unsigned(s))
        ELSE ParseDigits(Unsigned(s))

\* The check of one of the first lines after the column line: an empty line
\* is skipped, a line of fewer parts than required columns and a line whose
\* POS is not an integer are defects.
CheckRowCountOnly(line) ==
    IF ~NonBlank(line) THEN "ok"
    ELSE IF Len(Strip(line)) < Len(required_columns)
         THEN "insufficient columns"
         ELSE "ok"

CheckRow(line) ==
    IF ~NonBlank(line) THEN "ok"
    ELSE IF Len(Strip(line)) < Len(required_columns)
         THEN "insufficient columns"
         ELSE IF ~IsIntString(Strip(line)[2])
              THEN "POS column must be numeric"
              ELSE "ok"

\* (is_valid, error_message); row is the i+1 of the message of a row defect.
Verdict(is_valid, error_message, row) ==
    [is_valid |-> is_valid, error_message |-> error_message, row |-> row]

\* The file exists and its name ends in .vcf.
validate_vcf_file(lines) ==
    IF lines = <<>> THEN Verdict(FALSE, "VCF file is empty", 0)
    ELSE
    LET header_lines == SelectSeq(lines, IsMetaLine)
        column_lines == SelectSeq(lines, IsColumnLine)
        data_start_idx == Len(header_lines) + 1
    IN  IF column_lines = <<>>
        THEN Verdict(FALSE, "VCF file missing column header line (#CHROM)", 0)
        ELSE
        LET columns == Strip(column_lines[1])
        IN  IF \E r \in 1..Len(required_columns) :
                  \A c \in 1..Len(columns) : columns[c] # required_columns[r]
            THEN Verdict(FALSE, "Missing required column", 0)
            ELSE IF Len(lines) <= data_start_idx
            THEN Verdict(FALSE, "VCF file has no data rows", 0)
            ELSE
            LET n == Min(SampleRows, Len(lines) - data_start_idx)
                bad == {i \in 0..(n - 1) :
                           CheckRow(lines[data_start_idx + i + 1]) # "ok"}
                first == CHOOSE i \in bad : \A j \in bad : i <= j
            IN  IF bad = {} THEN Verdict(TRUE, "VCF file is valid", 0)
                ELSE Verdict(FALSE, CheckRow(lines[data_start_idx + first + 1]),
                             first + 1)

\* The lines of the files validate_vcf_file reads.
FILEFORMAT ==
    <<"#", "#", "f", "i", "l", "e", "f", "o", "r", "m", "a", "t", "=",
    "V", "C", "F", "v", "4", ".", "2">>
META_FILEFORMAT == <<FILEFORMAT>>
SOURCE ==
    <<"#", "#", "s", "o", "u", "r", "c", "e", "=", "x">>
META_SOURCE == <<SOURCE>>
FABC == <<"a", "b", "c">>
F100 == <<"1", "0", "0">>

ColumnLine(n) ==
    SubSeq(<<FCOL, COL_POS, COL_ID, COL_REF, COL_ALT, COL_QUAL, COL_FILTER,
             COL_INFO, COL_FORMAT, COL_SAMPLE>>, 1, n)

\* good: 7 fields; short: 6 fields (no FILTER); badpos: POS "abc";
\* nofilter: 7 fields of which the last is empty; blank: an empty line.
RowKinds == {"good", "short", "badpos", "nofilter", "blank"}

Row(kind) ==
    CASE kind = "good"     -> <<F16, F100, DOT, FA, FG, F30, FPASS>>
      [] kind = "short"    -> <<F16, F100, DOT, FA, FG, F30>>
      [] kind = "badpos"   -> <<F16, FABC, DOT, FA, FG, F30, FPASS>>
      [] kind = "nofilter" -> <<F16, F100, DOT, FA, FG, F30, EMPTY>>
      [] kind = "blank"    -> <<EMPTY>>

Rows(max) ==
    UNION { { [n \in 1..len |-> Row(kinds[n])] : kinds \in [1..len -> RowKinds] }
            : len \in 0..max }

\* The meta lines, the column line, the lines after it.
ValidateFiles(max) ==
    { top \o rows : top \in {<<META_FILEFORMAT, ColumnLine(7)>>,
                             <<ColumnLine(8)>>,
                             <<META_FILEFORMAT, ColumnLine(6)>>},
                    rows \in Rows(max) }

ValidateInit ==
    /\ NoAnnotation
    /\ \E f \in ValidateFiles(MaxDataLines) : stage = [st |-> "input", input_vcf |-> f]

ValidateVcfFile ==
    /\ stage.st = "input"
    /\ stage' = [st |-> "validated", input_vcf |-> stage.input_vcf,
                 ret |-> validate_vcf_file(stage.input_vcf)]
    /\ UNCHANGED annotation

ValidateNext == ValidateVcfFile

SpecValidate == ValidateInit /\ [][ValidateNext]_vars

\* --------------------------------------------------- the position stages

\* pd.DataFrame(data, columns=column_headers) of a list of lists: the rows
\* shorter than the longest are filled with None; the longest must have as
\* many cells as there are columns.  A frame without rows is empty.
NONE == <<"N", "o", "n", "e">>

MaxLen(data) ==
    IF data = <<>> THEN 0
    ELSE CHOOSE n \in {Len(data[i]) : i \in 1..Len(data)} :
            \A i \in 1..Len(data) : Len(data[i]) <= n

DataFrameRaises(data, columns) ==
    data # <<>> /\ MaxLen(data) # Len(columns)

DataFrame(data, columns) ==
    [i \in 1..Len(data) |->
        [c \in 1..Len(columns) |->
            IF c <= Len(data[i]) THEN data[i][c] ELSE NONE]]

\* df['POS']: the cells of the column named POS
ColumnOf(columns, name) ==
    CHOOSE c \in 1..Len(columns) :
       /\ columns[c] = name
       /\ \A d \in (c + 1)..Len(columns) : columns[d] # name

\* The stage did not return: it raised; nothing was written.
Raised(why) == [raised |-> TRUE, why |-> why, written |-> FALSE,
                output_vcf |-> <<>>]

Written(lines) == [raised |-> FALSE, why |-> "", written |-> TRUE,
                   output_vcf |-> lines]

\* modify_vcf_ces1p1_ces1 and modify_vcf_ces1a2_ces1 but for the position
\* map NewPos, a function of the position: validate, read, build the frame, df['POS'].astype(int), map, write
\* the '##' lines, the column line and the rows.  data keeps the blank
\* lines, as rows of one empty cell.
ModifyVcf(lines, NewPos) ==
    IF ~validate_vcf_file(lines).is_valid THEN Raised("ValueError: invalid")
    ELSE
    LET header_lines == SelectSeq(lines, IsMetaLine)
        column_header_line == lines[Len(header_lines) + 1]
        column_headers == Strip(column_header_line)
        data_lines == SubSeq(lines, Len(header_lines) + 2, Len(lines))
        data == [i \in 1..Len(data_lines) |-> Strip(data_lines[i])]
        pos == ColumnOf(column_headers, COL_POS)
        df == DataFrame(data, column_headers)
    IN  IF DataFrameRaises(data, column_headers)
        THEN Raised("ValueError: columns")
        ELSE IF \E i \in 1..Len(df) : ~IsIntString(df[i][pos])
        THEN Raised("ValueError: astype")
        ELSE Written(header_lines \o <<column_header_line>>
                     \o [i \in 1..Len(df) |->
                           [df[i] EXCEPT ![pos] = Str(NewPos[IntOf(df[i][pos])])]])

\* Transform A: df['POS'].astype(int) + pos_modifier
PositionA(x) == x + pos_modifier

modify_vcf_ces1p1_ces1(lines) ==
    ModifyVcf(lines, [x \in Int |-> PositionA(x)])

\* Transform B:
\* lambda x: BASE_OFFSET + x if x < LOW_POS_THRESHOLD
\*   else HIGH_OFFSET_BASE - (HIGH_OFFSET_SUBTRACT - x) if x > HIGH_POS_THRESHOLD
\*   else x
PositionBInclusive(x) ==
    IF x <= LOW_POS_THRESHOLD THEN BASE_OFFSET + x
    ELSE IF x > HIGH_POS_THRESHOLD
         THEN HIGH_OFFSET_BASE - (HIGH_OFFSET_SUBTRACT - x)
         ELSE x

PositionB(x) ==
    IF x < LOW_POS_THRESHOLD THEN BASE_OFFSET + x
    ELSE IF x > HIGH_POS_THRESHOLD
         THEN HIGH_OFFSET_BASE - (HIGH_OFFSET_SUBTRACT - x)
         ELSE x

modify_vcf_ces1a2_ces1(lines) ==
    ModifyVcf(lines, [x \in Int |-> PositionB(x)])

\* ------------------------------------------------------ the custom stage

\* An equation is the expression eval() parses from equation_str: the name
\* x, another name, an integer literal, or l op r for op of + - * /.  Two
\* strings are not expressions: the empty one and one that does not parse.
X == [op |-> "x"]

Name(id) == [op |-> "name", id |-> id]

Lit(v) == [op |-> "lit", v |-> v]

Bin(op, l, r) == [op |-> op, l |-> l, r |-> r]

\* The values of eval(): an int, or a float kept as the fraction num/den
\* with den > 0, or the exception raised.
IntV(n) == [t |-> "int", num |-> n, den |-> 1]

Frac(n, d) ==
    IF d < 0 THEN [t |-> "float", num |-> 0 - n, den |-> 0 - d]
    ELSE [t |-> "float", num |-> n, den |-> d]

RaiseV(why) == [t |-> "raise", why |-> why]

\* The names of the frame eval() runs in that are bound to the position,
\* other than x: the loop variable pos.
BoundToPosition == {"pos"}

Arith(op, a, b) ==
    IF a.t = "raise" THEN a
    ELSE IF b.t = "raise" THEN b
    ELSE IF op = "/"
         THEN IF b.num = 0 THEN RaiseV("ZeroDivisionError")
              ELSE Frac(a.num * b.den, a.den * b.num)
    ELSE LET n == CASE op = "+" -> a.num * b.den + b.num * a.den
                    [] op = "-" -> a.num * b.den - b.num * a.den
                    [] op = "*" -> a.num * b.num
             d == a.den * b.den
         IN  IF a.t = "int" /\ b.t = "int" THEN IntV(n) ELSE Frac(n, d)

RECURSIVE Eval(_, _)
Eval(e, pos) ==
    CASE e.op = "x" -> IntV(pos)
      [] e.op = "name" -> IF e.id \in BoundToPosition THEN IntV(pos)
                          ELSE RaiseV("NameError")
      [] e.op = "lit" -> IntV(e.v)
      [] e.op \in {"empty", "syntax error"} -> RaiseV("SyntaxError")
      [] OTHER -> Arith(e.op, Eval(e.l, pos), Eval(e.r, pos))

\* int(result): towards zero
IntOfValue(v) ==
    IF v.num >= 0 THEN v.num \div v.den ELSE 0 - ((0 - v.num) \div v.den)

\* test_positions = [100, 1000, 10000, 100000]
test_positions == <<100, 1000, 10000, 100000>>

\* validate_equation: (is_valid, error_message, test_results)
EquationVerdict(is_valid, error_message, test_results) ==
    [is_valid |-> is_valid, error_message |-> error_message,
     test_results |-> test_results]

NegativeRejected(v) == v.num < 0

validate_equation(equation) ==
    IF equation.op = "empty"
    THEN EquationVerdict(FALSE, "Equation cannot be empty", <<>>)
    ELSE
    LET results == [i \in 1..Len(test_positions) |->
                       Eval(equation, test_positions[i])]
        bad == {i \in 1..Len(test_positions) :
                   results[i].t = "raise" \/ NegativeRejected(results[i])}
        first == CHOOSE i \in bad : \A j \in bad : i <= j
    IN  IF bad = {}
        THEN EquationVerdict(TRUE, "Equation is valid",
                 [i \in 1..Len(test_positions) |->
                     <<test_positions[i], IntOfValue(results[i])>>])
        ELSE IF results[first].t = "raise"
             THEN EquationVerdict(FALSE, "Equation error at position", <<>>)
             ELSE EquationVerdict(FALSE, "Equation produced negative position",
                                  <<>>)

\* apply_custom_modification: the dict returned and the file written
Failure(error) == [success |-> FALSE, error |-> error, written |-> FALSE,
                   output_vcf |-> <<>>]

Success(lines) == [success |-> TRUE, error |-> "", written |-> TRUE,
                   output_vcf |-> lines]

apply_custom_modification(lines, chromosome_id, equation, chromosome_format) ==
    IF ~validate_vcf_file(lines).is_valid THEN Failure("Invalid VCF file")
    ELSE IF ~validate_equation(equation).is_valid
    THEN Failure("Invalid equation")
    ELSE
    LET header_lines == SelectSeq(lines, IsMetaLine)
        column_header_line == lines[Len(header_lines) + 1]
        column_headers == Strip(column_header_line)
        data_lines == SelectSeq(SubSeq(lines, Len(header_lines) + 2, Len(lines)),
                                NonBlank)
        data == [i \in 1..Len(data_lines) |-> Strip(data_lines[i])]
        pos == ColumnOf(column_headers, COL_POS)
        chrom == ColumnOf(column_headers, FCOL)
        df == DataFrame(data, column_headers)
        formatted_chrom == _format_chromosome(chromosome_id, chromosome_format)
    IN  IF DataFrameRaises(data, column_headers)
        THEN Failure("Processing failed")
        ELSE IF df = <<>> THEN Failure("No data rows found in VCF file")
        ELSE IF \E i \in 1..Len(df) : ~IsIntString(df[i][pos])
        THEN Failure("Processing failed")
        ELSE IF \E i \in 1..Len(df) :
                   Eval(equation, IntOf(df[i][pos])).t = "raise"
        THEN Failure("Equation failed for position")
        ELSE Success(header_lines \o <<column_header_line>>
                 \o [i \in 1..Len(df) |->
                       [df[i] EXCEPT
                          ![pos] = Str(IntOfValue(Eval(equation, IntOf(df[i][pos])))),
                          ![chrom] = formatted_chrom]])

\* --------------------------------------------------------------- clean_vcf

\* pd.read_csv(path, comment='#', sep='\t', header=None, dtype=str): the
\* lines that start with '#' and the empty lines are skipped; the first row
\* gives the number of columns, a longer row later raises ParserError, a
\* shorter one is filled with NaN; an empty cell, "nan" and "NA" read as NaN.
\* A file without a row raises EmptyDataError.
NaValues == {EMPTY, NaN, <<"N", "A">>}

ReadCell(f) == IF f \in NaValues THEN NaN ELSE f

IsCsvRow(line) == ~IsHeader(line) /\ line # <<EMPTY>>

read_csv(lines) ==
    LET rows == SelectSeq(lines, IsCsvRow)
    IN  IF rows = <<>> THEN [raised |-> TRUE, why |-> "EmptyDataError", vcf |-> <<>>]
        ELSE IF \E i \in 1..Len(rows) : Len(rows[i]) > Len(rows[1])
        THEN [raised |-> TRUE, why |-> "ParserError", vcf |-> <<>>]
        ELSE [raised |-> FALSE, why |-> "",
              vcf |-> [i \in 1..Len(rows) |->
                         [c \in 1..Len(rows[1]) |->
                            IF c <= Len(rows[i]) THEN ReadCell(rows[i][c])
                            ELSE NaN]]]

\* DataFrame.to_csv(sep='\t', index=False, header=False): NaN is written as
\* an empty cell.
ToCsvCell(cell) == IF cell = NaN THEN EMPTY ELSE cell

to_csv(frame) ==
    [i \in 1..Len(frame) |->
        [c \in 1..Len(frame[i]) |-> ToCsvCell(frame[i][c])]]

CONTIG_ID == <<"#", "#", "c", "o", "n", "t", "i", "g", "=", "<", "I", "D", "=">>

\* "#CHROM\tPOS\tID\tREF\tALT\tQUAL\tSAMPLE\n"
CleanedColumnLine ==
    <<FCOL, COL_POS, COL_ID, COL_REF, COL_ALT, COL_QUAL, COL_SAMPLE>>

\* vcf.columns = [...] raises ValueError when the frame has another number
\* of columns than names: base_cols has 8 names, extra_cols one for each
\* column after the 8th.
ColumnsRaise(num_cols) == num_cols # 8 /\ num_cols # 10 /\ num_cols < 8

\* vcf_cleaned: the first 6 columns and SAMPLE, which is the last of more
\* than 8 columns and empty otherwise.
Cleaned(row) ==
    SubSeq(row, 1, 6) \o <<IF Len(row) > 8 THEN row[Len(row)] ELSE EMPTY>>

clean_vcf(lines) ==
    LET r == read_csv(lines)
        vcf_cleaned == [i \in 1..Len(r.vcf) |-> Cleaned(r.vcf[i])]
        first_chrom == vcf_cleaned[1][1]
    IN  IF r.raised THEN Raised("VCF cleaning failed")
        ELSE IF ColumnsRaise(Len(r.vcf[1])) THEN Raised("VCF cleaning failed")
        ELSE Written(<<<<FILEFORMAT>>,
                       <<CONTIG_ID \o first_chrom \o <<">">>>>,
                       CleanedColumnLine>>
                     \o to_csv(vcf_cleaned))

\* ----------------------------------------------- the runs of these stages

FGT == <<"G", "T">>

\* The positions of the rows: around the thresholds of transform B, below
\* the test positions of validate_equation, and one that is not a number.
PositionFields ==
    {<<"5", "0">>, <<"2", "3", "5", "7">>, <<"2", "3", "5", "8">>,
     <<"3", "2", "6", "3", "4">>, <<"3", "2", "6", "3", "5">>, FABC}

\* A row of n columns at position p.
StageRow(n, p) ==
    SubSeq(<<F16, p, DOT, FA, FG, F30, FPASS, DOT, FGT, FS>>, 1, n)

\* The column lines: the first 6, 7, 8 or 10 names of a VCF file, and the 7
\* names clean_vcf writes.
ColumnLines ==
    {ColumnLine(6), ColumnLine(7), ColumnLine(8), ColumnLine(10),
     CleanedColumnLine}

\* A file: the '##' lines, the column line, then at most max lines that
\* are rows of as many fields as the column line has names, or blank.
StageRows(n, max) ==
    UNION { [1..len -> {StageRow(n, p) : p \in PositionFields} \cup {<<EMPTY>>}]
            : len \in 0..max }

StageFiles(max) ==
    UNION { { top \o <<cols>> \o rows :
                top \in {<<>>, <<META_FILEFORMAT, META_SOURCE>>},
                rows \in StageRows(Len(cols), max) }
            : cols \in ColumnLines }

\* The equations a user types: "x + 1000", "x - 100", "x / 2", "y + 1000",
\* "pos + 1000", "x - 10000000", "1000 / (x - 50)", "x +" and "".
Equations ==
    {Bin("+", X, Lit(1000)),
     Bin("-", X, Lit(100)),
     Bin("/", X, Lit(2)),
     Bin("+", Name("y"), Lit(1000)),
     Bin("+", Name("pos"), Lit(1000)),
     Bin("-", X, Lit(10000000)),
     Bin("/", Lit(1000), Bin("-", X, Lit(50))),
     [op |-> "syntax error"],
     [op |-> "empty"]}

StageInit ==
    /\ NoAnnotation
    /\ \E f \in StageFiles(MaxRows) : stage = [st |-> "input", input_vcf |-> f]

TransformA ==
    /\ stage.st = "input"
    /\ stage' = [st |-> "transform A", input_vcf |-> stage.input_vcf,
                 ret |-> modify_vcf_ces1p1_ces1(stage.input_vcf)]
    /\ UNCHANGED annotation

TransformB ==
    /\ stage.st = "input"
    /\ stage' = [st |-> "transform B", input_vcf |-> stage.input_vcf,
                 ret |-> modify_vcf_ces1a2_ces1(stage.input_vcf)]
    /\ UNCHANGED annotation

ValidateEquation ==
    /\ stage.st = "input"
    /\ \E e \in Equations :
          stage' = [st |-> "equation", input_vcf |-> stage.input_vcf,
                    equation |-> e, ret |-> validate_equation(e)]
    /\ UNCHANGED annotation

CustomModification ==
    /\ stage.st = "input"
    /\ \E e \in Equations, t \in {"RefSeq", "UCSC"} :
          stage' = [st |-> "custom", input_vcf |-> stage.input_vcf,
                    equation |-> e,
                    ret |-> apply_custom_modification(stage.input_vcf, F16, e, t)]
    /\ UNCHANGED annotation

CleanVcf ==
    /\ stage.st = "input"
    /\ stage' = [st |-> "clean", input_vcf |-> stage.input_vcf,
                 ret |-> clean_vcf(stage.input_vcf)]
    /\ UNCHANGED annotation

StageNext ==
    \/ TransformA
    \/ TransformB
    \/ ValidateEquation
    \/ CustomModification
    \/ CleanVcf

SpecStage == StageInit /\ [][StageNext]_vars

\* ------------------------------------------------- the reports of a table

\* pd.to_numeric(column, errors='coerce') of a cell: the number a decimal
\* string stands for, kept as the fraction num/den, and NaN for a missing
\* cell and for a string that is not a number, "." among them.
IntPart(t) == SplitFirst(t, ".")

FracPart(t) ==
    IF Len(IntPart(t)) = Len(t) THEN <<>>
    ELSE SubSeq(t, Len(IntPart(t)) + 2, Len(t))

AllDigits(s) == \A i \in 1..Len(s) : IsDigit(s[i])

IsNumberString(s) ==
    LET t == Unsigned(s)
    IN  /\ AllDigits(IntPart(t))
        /\ AllDigits(FracPart(t))
        /\ Len(IntPart(t)) + Len(FracPart(t)) > 0

RECURSIVE Pow10(_)
Pow10(n) == IF n = 0 THEN 1 ELSE 10 * Pow10(n - 1)

NotANumber == [nan |-> TRUE, num |-> 0, den |-> 1]

Number(s) ==
    LET t == Unsigned(s)
        digits == ParseDigits(IntPart(t) \o FracPart(t))
    IN  [nan |-> FALSE,
         num |-> IF StripBlanks(s)[1] = "-" THEN 0 - digits ELSE digits,
         den |-> Pow10(Len(FracPart(t)))]

to_numeric_dot_as_zero(cell) ==
    IF cell = DOT THEN [nan |-> FALSE, num |-> 0, den |-> 1]
    ELSE IF cell = NaN \/ ~IsNumberString(cell) THEN NotANumber
    ELSE Number(cell)

to_numeric(cell) ==
    IF cell = NaN \/ ~IsNumberString(cell) THEN NotANumber ELSE Number(cell)

\* column >= threshold: False where the column is NaN
AtLeast(v, threshold) == ~v.nan /\ v.num >= threshold * v.den

\* vcf.columns = [the 7 names] raises ValueError for a frame of another
\* number of columns.
SevenColumns(frame) == Len(frame[1]) = 7

\* filter_significant_rsids: what it wrote and whether it raised.  A file
\* without a row gives an empty output; a row longer than the first raises
\* out of read_csv.  The cells are written through str().
filter_significant_rsids(lines, threshold) ==
    LET r == read_csv(lines)
        Significant(row) == AtLeast(to_numeric(row[QUAL]), threshold)
    IN  IF r.raised /\ r.why = "EmptyDataError" THEN Written(<<>>)
        ELSE IF r.raised THEN Raised(r.why)
        ELSE IF ~SevenColumns(r.vcf) THEN Raised("ValueError: columns")
        ELSE Written(SelectSeq(r.vcf, Significant))

\* vcf[2].str.startswith('rs', na=False)
HasRsid(row) == row[ID] # NaN /\ StartsWith(row[ID], RS)

\* (vcf[2].str.startswith('rs', na=False)) & (vcf_qual_numeric >= 20)
ReliableWhateverID(row) == AtLeast(to_numeric(row[QUAL]), ReliableQual)

Reliable(row) == HasRsid(row) /\ AtLeast(to_numeric(row[QUAL]), ReliableQual)

\* generate_summary_report: the dict returned.  read_csv raises on a file
\* without a row; vcf[2] and vcf[5] raise KeyError on a frame without them.
generate_summary_report(lines) ==
    LET r == read_csv(lines)
        total_variants == Len(r.vcf)
        with_rsid == Len(SelectSeq(r.vcf, HasRsid))
    IN  IF r.raised THEN [raised |-> TRUE, why |-> r.why]
        ELSE IF Len(r.vcf[1]) < 6 THEN [raised |-> TRUE, why |-> "KeyError"]
        ELSE [raised |-> FALSE, why |-> "",
              total_variants |-> total_variants,
              with_rsid |-> with_rsid,
              without_rsid |-> total_variants - with_rsid,
              reliable_variants |-> Len(SelectSeq(r.vcf, Reliable))]

\* The tables: rows of the 7 columns whose ID is an identifier, "." or
\* "NORSID" and whose QUAL is a number, "." or empty; with or without the
\* header lines of an annotated file.
F19_9 == <<"1", "9", ".", "9">>
F20 == <<"2", "0">>
F0 == <<"0">>

Quals == {DOT, F19_9, F20, F30, F0, EMPTY}

TableRows ==
    {<<F16, F100, id, FA, FG, q, FS>> : id \in {FRS9, DOT, NORSID}, q \in Quals}

Tables(max) ==
    { top \o rows :
        top \in {<<>>, <<META_FILEFORMAT, CleanedColumnLine>>},
        rows \in UNION { [1..len -> TableRows] : len \in 0..max } }

\* The thresholds a caller passes; the first is the default.
Thresholds == {qual_threshold, 0, -1}

ReportInit ==
    /\ NoAnnotation
    /\ \E f \in Tables(MaxRows) : stage = [st |-> "input", input_vcf |-> f]

FilterSignificant ==
    /\ stage.st = "input"
    /\ \E t \in Thresholds :
          stage' = [st |-> "significant", input_vcf |-> stage.input_vcf,
                    qual_threshold |-> t,
                    ret |-> filter_significant_rsids(stage.input_vcf, t)]
    /\ UNCHANGED annotation

SummaryReport ==
    /\ stage.st = "input"
    /\ stage' = [st |-> "summary", input_vcf |-> stage.input_vcf,
                 ret |-> generate_summary_report(stage.input_vcf)]
    /\ UNCHANGED annotation

ReportNext ==
    \/ FilterSignificant
    \/ SummaryReport

SpecReport == ReportInit /\ [][ReportNext]_vars

\* ========================================================== the pipelines

\* str.endswith(suffix)
EndsWith(s, suffix) ==
    /\ Len(s) >= Len(suffix)
    /\ SubSeq(s, Len(s) - Len(suffix) + 1, Len(s)) = suffix

DOT_VCF == <<".", "v", "c", "f">>

\* validate_vcf_file on a path: the file does not exist, its name does not end
\* in .vcf whatever the case, or its lines are validated.
validate_vcf_path(exists, name, lines) ==
    IF ~exists THEN Verdict(FALSE, "File does not exist", 0)
    ELSE IF ~EndsWith(Lower(name), DOT_VCF)
    THEN Verdict(FALSE, "File must have .vcf extension", 0)
    ELSE validate_vcf_file(lines)

\* not self.email or '@' not in self.email
EmailInvalid(email) == email = <<>> \/ ~\E i \in 1..Len(email) : email[i] = "@"

ModificationTypes == {"CES1P1-CES1", "CES1A2-CES1"}

\* pos_modifier is None or pos_modifier <= 0; None is <<>>, a number n is <<n>>
NotPositive(pos) == pos = <<>> \/ pos[1] <= 0

\* RSIDProcessor.validate_inputs: the list of the errors found.  a: the
\* arguments of the call and the email of the processor.
validate_inputs_first_only(a) ==
    IF EmailInvalid(a.email)
    THEN <<"Valid email address required for Entrez API">>
    ELSE IF ~validate_vcf_path(a.exists, a.name, a.lines).is_valid
    THEN <<"Invalid VCF file">>
    ELSE IF a.output_dir = "cannot create"
    THEN <<"Cannot create output directory">>
    ELSE IF a.modification_type \notin ModificationTypes
    THEN <<"Invalid modification type">>
    ELSE IF a.modification_type = "CES1P1-CES1" /\ NotPositive(a.pos)
    THEN <<"Position modifier must be a positive integer for CES1P1-CES1">>
    ELSE <<>>

validate_inputs(a) ==
       (IF EmailInvalid(a.email)
        THEN <<"Valid email address required for Entrez API">> ELSE <<>>)
    \o (IF ~validate_vcf_path(a.exists, a.name, a.lines).is_valid
        THEN <<"Invalid VCF file">> ELSE <<>>)
    \o (IF a.output_dir = "cannot create"
        THEN <<"Cannot create output directory">> ELSE <<>>)
    \o (IF a.modification_type \notin ModificationTypes
        THEN <<"Invalid modification type">> ELSE <<>>)
    \o (IF a.modification_type = "CES1P1-CES1" /\ NotPositive(a.pos)
        THEN <<"Position modifier must be a positive integer for CES1P1-CES1">>
        ELSE <<>>)

\* filter_rsids_vcf: what it wrote and whether it raised.  A file without a
\* row gives an empty output; every other failure of read_csv and a frame of
\* another number of columns than 7 raise.
filter_rsids_vcf(lines) ==
    LET r == read_csv(lines)
    IN  IF r.raised /\ r.why = "EmptyDataError" THEN Written(<<>>)
        ELSE IF r.raised THEN Raised(r.why)
        ELSE IF ~SevenColumns(r.vcf) THEN Raised("ValueError: columns")
        ELSE Written(SelectSeq(r.vcf, HasRsid))

\* ----------------------------------------------------------- the results

\* The dict a pipeline returns.  files: the manifest of the paths ("paths")
\* or the empty dict ("{}") or no such key ("no key").
PipelineFailed(errors, files, messages) ==
    [success |-> FALSE, errors |-> errors, files |-> files,
     messages |-> messages, annotation_success |-> FALSE]

PipelineSucceeded(messages, annotation_result) ==
    [success |-> TRUE, errors |-> <<>>, files |-> "paths",
     messages |-> messages, annotation_success |-> annotation_result.success]

\* A run of the statements of a pipeline between two points where it waits:
\* its steps in order, each a stage that may raise or a call of the observer
\* with a value.  The run stops at the first step that raises; the observer
\* is called only when there is one, and raises at the value raise_at.
\* What comes out: the stages done, the values reported, and whether and at
\* which step it stopped.
RECURSIVE RunSteps(_, _, _, _)
RunSteps(steps, with_observer, raise_at, acc) ==
    IF steps = <<>> THEN acc
    ELSE LET step == steps[1]
         IN  IF step.t = "stage"
             THEN IF step.raised
                  THEN [acc EXCEPT !.stopped = TRUE, !.why = step.name]
                  ELSE RunSteps(Tail(steps), with_observer, raise_at,
                                [acc EXCEPT !.done = Append(acc.done, step.name)])
             ELSE IF ~with_observer
                  THEN RunSteps(Tail(steps), with_observer, raise_at, acc)
                  ELSE IF step.value = raise_at
                  THEN [acc EXCEPT !.reported = Append(acc.reported, step.value),
                                   !.stopped = TRUE, !.why = "observer"]
                  ELSE RunSteps(Tail(steps), with_observer, raise_at,
                                [acc EXCEPT !.reported =
                                    Append(acc.reported, step.value)])

StageStep(name, raised) == [t |-> "stage", name |-> name, raised |-> raised]

ProgressStep(value) == [t |-> "progress", value |-> value]

NothingDone == [done |-> <<>>, reported |-> <<>>, stopped |-> FALSE, why |-> ""]

\* ------------------------------------------------------------ the inputs

\* The rows of the input files, all at position 50: r10, the 10 columns of a
\* VCF line with ID "."; known10, the same with the ID rs9; noqual8, 8 columns with ID "."
\* and an empty QUAL; badpos10, 10 columns with POS "abc".
PipelineRowKinds == {"r10", "known10", "noqual8", "badpos10"}

PipelineRow(kind) ==
    CASE kind = "r10"      -> <<F16, F50, DOT, FA, FG, F30, FPASS, DOT, FGT, FS>>
      [] kind = "known10"  -> <<F16, F50, FRS9, FA, FG, F50, FPASS, DOT, FGT, FS>>
      [] kind = "noqual8"  -> <<F16, F50, DOT, FA, FG, EMPTY, FPASS, DOT>>
      [] kind = "badpos10" -> <<F16, FABC, DOT, FA, FG, F30, FPASS, DOT, FGT, FS>>

\* A '##' line, a column line of 6, 8 or 10 names, at most max rows.
PipelineFiles(max) ==
    { <<META_FILEFORMAT, cols>> \o rows :
        cols \in {ColumnLine(6), ColumnLine(8), ColumnLine(10)},
        rows \in UNION { { [n \in 1..len |-> PipelineRow(kinds[n])] :
                             kinds \in [1..len -> PipelineRowKinds] }
                         : len \in 0..max } }

A_VCF == <<"a", ".", "v", "c", "f">>
A_TXT == <<"a", ".", "t", "x", "t">>
A_AT_B == <<"a", "@", "b">>
AB == <<"a", "b">>

\* A file of one r10 row under a column line of 10 names.
GoodFile == <<META_FILEFORMAT, ColumnLine(10), PipelineRow("r10")>>

\* The input paths of the calls with other defects: a file that does not
\* exist, a good file whose name does not end in .vcf, a good file.
DefectPaths ==
    {[exists |-> FALSE, name |-> A_VCF, lines |-> <<>>],
     [exists |-> TRUE, name |-> A_TXT, lines |-> GoodFile],
     [exists |-> TRUE, name |-> A_VCF, lines |-> GoodFile]}

\* modification_type and pos_modifier, the latter left to its default but
\* for CES1P1-CES1.
Modifications ==
    {[modification_type |-> "CES1P1-CES1", pos |-> p] :
        p \in {<<>>, <<0>>, <<pos_modifier>>}}
    \cup {[modification_type |-> t, pos |-> <<pos_modifier>>] :
            t \in {"CES1A2-CES1", "other"}}

ProcessVcfCall(e, path, d, m, o) ==
    [kind |-> "process_vcf", email |-> e, exists |-> path.exists,
     name |-> path.name, lines |-> path.lines, output_dir |-> d,
     modification_type |-> m.modification_type, pos |-> m.pos,
     with_observer |-> o]

\* The calls of RSIDProcessor.process_vcf: every combination of an email
\* with or without "@", an output directory that exists or cannot be
\* created, a modification and one of the paths above; and for a valid email,
\* directory and modification every file of at most max rows.
ProcessVcfCalls(max) ==
    {ProcessVcfCall(e, path, d, m, o) :
        e \in {A_AT_B, AB}, path \in DefectPaths,
        d \in {"exists", "cannot create"}, m \in Modifications, o \in BOOLEAN}
    \cup
    {ProcessVcfCall(A_AT_B, [exists |-> TRUE, name |-> A_VCF, lines |-> f],
                    "exists", m, o) :
        f \in PipelineFiles(max),
        m \in {n \in Modifications :
                  n.modification_type # "other" /\ n.pos = <<pos_modifier>>},
        o \in BOOLEAN}

\* The calls of SandboxProcessor.run_sandbox_pipeline, for chromosome "16"
\* in the RefSeq notation and the equations "x + 1000" and "x +".
SandboxCalls(max) ==
    {[kind |-> "sandbox", lines |-> f, equation |-> e, with_observer |-> o] :
        f \in PipelineFiles(max),
        e \in {Bin("+", X, Lit(1000)), [op |-> "syntax error"]},
        o \in BOOLEAN}

PipelineInit ==
    /\ NoAnnotation
    /\ \E a \in ProcessVcfCalls(MaxRows) \cup SandboxCalls(MaxRows) :
          stage = [st |-> "pipeline", at |-> "called", a |-> a,
                   done |-> <<>>, ret |-> PipelineFailed(<<>>, "no key", <<>>)]

\* The observer raises at one of the values it is called with, or never.
NEVER == -1

RaiseAt(values) == values \cup {NEVER}

\* The pipeline calls annotate_vcf_with_entrez on the cleaned file, with its
\* own observer.
CallAnnotate(cleaned, with_observer, values) ==
    /\ file' = cleaned
    /\ emailSet' = TRUE
    /\ observer' = with_observer
    /\ reported' = values
    /\ pc' = "start"
    /\ UNCHANGED <<lookup, vcf, batches, fut, th, permits, batch_results, failed,
                   completed_batches, annotated_count, out, result, seqRuns, idx>>

\* The pipeline returns ret to its caller.
Return(ret, done, values) ==
    /\ stage' = [stage EXCEPT !.at = "returned", !.ret = ret,
                              !.done = stage.done \o done]
    /\ reported' = reported \o values
    /\ UNCHANGED <<lookup, file, emailSet, observer, pc, vcf, batches, fut, th,
                   permits, batch_results, failed, completed_batches,
                   annotated_count, out, result, seqRuns, idx>>

\* The pipeline raises to its caller.
Raise ==
    /\ stage' = [stage EXCEPT !.at = "raised"]
    /\ UNCHANGED annotation

\* -------------------------------------------- RSIDProcessor.process_vcf

\* process_vcf up to its call of annotate_vcf_with_entrez: the validation of
\* the inputs, os.makedirs of the results directory, which is outside the
\* try, then inside it the transform, the clean and the observer at 10 and
\* 20.
ProcessVcf ==
    /\ stage.st = "pipeline"
    /\ stage.a.kind = "process_vcf"
    /\ stage.at = "called"
    /\ LET a == stage.a
           errors == validate_inputs(a)
           modified == IF a.modification_type = "CES1P1-CES1"
                       THEN ModifyVcf(a.lines, [x \in Int |-> x + a.pos[1]])
                       ELSE modify_vcf_ces1a2_ces1(a.lines)
           cleaned == clean_vcf(modified.output_vcf)
       IN  IF errors # <<>>
           THEN Return(PipelineFailed(errors, "{}", <<>>), <<>>, <<>>)
           ELSE \E makedirs \in {"ok", "raises"}, raise_at \in RaiseAt({10, 20}) :
                   IF makedirs = "raises" THEN Raise
                   ELSE LET run == RunSteps(
                                <<StageStep("transform", modified.raised),
                                  ProgressStep(10),
                                  StageStep("clean", modified.raised \/ cleaned.raised),
                                  ProgressStep(20)>>,
                                a.with_observer, raise_at, NothingDone)
                        IN  IF run.stopped
                            THEN Return(PipelineFailed(<<run.why>>, "paths", run.done),
                                        run.done, run.reported)
                            ELSE /\ stage' = [stage EXCEPT !.at = "annotating",
                                                           !.done = run.done]
                                 /\ CallAnnotate(cleaned.output_vcf,
                                                 a.with_observer, run.reported)

\* What the stages after the annotation do with the file it wrote, if it
\* wrote one: filter_rsids_vcf, filter_significant_rsids on what that wrote,
\* generate_summary_report.
AfterAnnotation(final_output_vcf) ==
    LET missing == final_output_vcf = <<>>
        filtered == filter_rsids_vcf(final_output_vcf)
        significant == filter_significant_rsids(filtered.output_vcf, qual_threshold)
        summary == generate_summary_report(final_output_vcf)
    IN  [filter      |-> missing \/ filtered.raised,
         significant |-> missing \/ filtered.raised \/ significant.raised,
         summary     |-> missing \/ summary.raised]

\* process_vcf after annotate_vcf_with_entrez has returned: its message is
\* kept, its success is not looked at; the observer at 70, 80, 90 and 100
\* between the filters and the summary; the dict returned.
ProcessVcfReturn ==
    /\ stage.st = "pipeline"
    /\ stage.a.kind = "process_vcf"
    /\ stage.at = "annotating"
    /\ pc = "done"
    /\ \E raise_at \in RaiseAt({70, 80, 90, 100}) :
          LET after == AfterAnnotation(out)
              run == RunSteps(
                        <<StageStep("annotate", FALSE),
                          ProgressStep(70),
                          StageStep("filter", after.filter),
                          ProgressStep(80),
                          StageStep("significant", after.significant),
                          ProgressStep(90),
                          StageStep("summary", after.summary),
                          ProgressStep(100)>>,
                        stage.a.with_observer, raise_at, NothingDone)
          IN  IF run.stopped
              THEN Return(PipelineFailed(<<run.why>>, "paths", stage.done \o run.done),
                          run.done, run.reported)
              ELSE Return(PipelineSucceeded(stage.done \o run.done, result),
                          run.done, run.reported)

\* ---------------------------------- SandboxProcessor.run_sandbox_pipeline

\* run_sandbox_pipeline up to its call of annotate_vcf_with_entrez, all of
\* it inside the try: os.makedirs, the observer at 10, the custom
\* modification, whose failure dict is returned as it is, the observer at
\* 25, the clean, the observer at 35.
SandboxPipeline ==
    /\ stage.st = "pipeline"
    /\ stage.a.kind = "sandbox"
    /\ stage.at = "called"
    /\ LET a == stage.a
           modified == apply_custom_modification(a.lines, F16, a.equation, "RefSeq")
           cleaned == clean_vcf(modified.output_vcf)
       IN  \E makedirs \in {"ok", "raises"}, raise_at \in RaiseAt({10, 25, 35}) :
              IF makedirs = "raises"
              THEN Return(PipelineFailed(<<"makedirs">>, "{}", <<>>), <<>>, <<>>)
              ELSE LET run == RunSteps(
                           <<ProgressStep(10),
                             StageStep("transform", ~modified.success),
                             ProgressStep(25),
                             StageStep("clean", ~modified.success \/ cleaned.raised),
                             ProgressStep(35)>>,
                           a.with_observer, raise_at, NothingDone)
                   IN  IF run.stopped
                       THEN Return(PipelineFailed(<<run.why>>,
                                      IF run.why = "transform" THEN "no key"
                                      ELSE "paths", run.done),
                                   run.done, run.reported)
                       ELSE /\ stage' = [stage EXCEPT !.at = "annotating",
                                                      !.done = run.done]
                            /\ CallAnnotate(cleaned.output_vcf,
                                            a.with_observer, run.reported)

\* run_sandbox_pipeline after annotate_vcf_with_entrez has returned: the
\* observer at 75, 85, 95 and 100; the summary stage also appends the
\* configuration to the report.
SandboxReturn ==
    /\ stage.st = "pipeline"
    /\ stage.a.kind = "sandbox"
    /\ stage.at = "annotating"
    /\ pc = "done"
    /\ \E raise_at \in RaiseAt({75, 85, 95, 100}) :
          LET after == AfterAnnotation(out)
              run == RunSteps(
                        <<StageStep("annotate", FALSE),
                          ProgressStep(75),
                          StageStep("filter", after.filter),
                          ProgressStep(85),
                          StageStep("significant", after.significant),
                          ProgressStep(95),
                          StageStep("summary", after.summary),
                          ProgressStep(100)>>,
                        stage.a.with_observer, raise_at, NothingDone)
          IN  IF run.stopped
              THEN Return(PipelineFailed(<<run.why>>, "paths", stage.done \o run.done),
                          run.done, run.reported)
              ELSE Return(PipelineSucceeded(stage.done \o run.done, result),
                          run.done, run.reported)

PipelineNext ==
    \/ ProcessVcf
    \/ ProcessVcfReturn
    \/ SandboxPipeline
    \/ SandboxReturn
    \/ Next

SpecPipeline == PipelineInit /\ [][PipelineNext]_vars

\* ======================================================= request spacing

\* One thread calls fetch_rsid_entrez again and again; the clock it reads
\* with time.time() counts ticks of 0.1 s.  since: the ticks since
\* _last_request_time.value of this thread was set, up to MaxTicks; gap: the
\* ticks between the starts of its last two requests.

\* if time_since_last < 0.5 (core/entrez_api.py), < 0.3 (rsID_retrieval.py)
MinInterval(impl) == IF impl = "core" THEN min_interval ELSE script_min_interval

\* for attempt in range(max_retries) in core/entrez_api.py; rsID_retrieval.py
\* makes one attempt and returns None when it raises.
Attempts(impl) == IF impl = "core" THEN max_retries ELSE 1

\* if hasattr(_last_request_time, 'value'): ... if time_since_last < interval
SleepNeededShortByATick(has_value, since, interval) ==
    has_value /\ since < interval - 1

SleepNeeded(has_value, since, interval) == has_value /\ since < interval

\* time.sleep(secs) suspends the thread for secs or longer.
AfterSleep(since, secs) == {t \in 0..MaxTicks : t >= Min(since + secs, MaxTicks)}

\* backoff_time = 1.5 * (attempt + 1)
backoff_time(attempt) == backoff_unit * (attempt + 1)

NoGap == -1

SpacingInit ==
    /\ NoAnnotation
    /\ \E impl \in {"core", "script"}, email \in BOOLEAN :
          stage = [st |-> "spacing", impl |-> impl, email |-> email,
                   at |-> "idle", attempt |-> 0, has_value |-> FALSE,
                   since |-> 0, gap |-> NoGap, slept |-> FALSE,
                   retry |-> FALSE]

\* The thread's clock advances by a tick, wherever the thread is.
Tick ==
    /\ stage.st = "spacing"
    /\ stage.since < MaxTicks
    /\ stage' = [stage EXCEPT !.since = stage.since + 1]
    /\ UNCHANGED annotation

\* The thread calls fetch_rsid_entrez and enters the rate-limited section.
SpacingCall ==
    /\ stage.st = "spacing"
    /\ stage.at = "idle"
    /\ stage' = [stage EXCEPT !.at = "in", !.attempt = 0]
    /\ UNCHANGED annotation

\* One pass of the body of the lookup: the sleep up to the minimum interval,
\* the stamp of _last_request_time.value, the request, which takes d ticks,
\* and after a request that raised the backoff sleep before the next pass.
SpacingRequest ==
    /\ stage.st = "spacing"
    /\ stage.at = "in"
    /\ LET interval == MinInterval(stage.impl)
           sleeps == SleepNeeded(stage.has_value, stage.since, interval)
           stamps == IF sleeps
                     THEN AfterSleep(stage.since, interval - stage.since)
                     ELSE {stage.since}
       IN  \E stamp \in stamps :
              IF ~stage.email
              THEN stage' = [stage EXCEPT !.at = "idle", !.has_value = TRUE,
                                          !.since = 0, !.slept = sleeps]
              ELSE \E raises \in BOOLEAN, d \in 0..1 :
                      LET again == raises /\ stage.attempt < Attempts(stage.impl) - 1
                      IN  \E after \in (IF again /\ stage.impl = "core"
                                        THEN AfterSleep(d, backoff_time(stage.attempt))
                                        ELSE {d}) :
                             stage' = [stage EXCEPT
                                !.at = IF again THEN "in" ELSE "idle",
                                !.attempt = IF again THEN stage.attempt + 1
                                            ELSE stage.attempt,
                                !.has_value = TRUE,
                                !.gap = IF stage.has_value THEN stamp ELSE NoGap,
                                !.slept = sleeps,
                                !.retry = stage.attempt > 0,
                                !.since = after]
    /\ UNCHANGED annotation

SpacingNext ==
    \/ Tick
    \/ SpacingCall
    \/ SpacingRequest

SpecSpacing == SpacingInit /\ [][SpacingNext]_vars

\* ================================================================= claims

\* The table read from the input, and the data rows of the output.
Parsed == ParseFile(file)

RawDataLines == SelectSeq(file, IsDataLine)

OutRows == SubSeq(out, Len(HeaderLines(file)) + 1, Len(out))

Succeeded == pc = "done" /\ result.success

ByParallel == result.message[1] = "Parallel Entrez annotation complete"

FrameColumns == {CHROM, POS, REF, ALT, QUAL}

RS1_RS2 == <<"r", "s", "1", ",", "r", "s", "2">>

\* A comma-joined list of identifiers that each begin with "rs".
IsRsList(s) ==
    /\ StartsWith(s, RS)
    /\ \A n \in 1..Len(s) :
          s[n] = "," => n + 2 <= Len(s) /\ s[n + 1] = "r" /\ s[n + 2] = "s"

\* ---- C1 ----------------------------------------------------------------
\* C1 as stated (refuted): when every data line of the input has at least 6
\* tab-separated fields, the written table has one row per data line, in the
\* order of the input, equal to it in CHROM, POS, REF, ALT and QUAL.
C1_RowsOfSixFieldsKept ==
    (Succeeded /\ \A i \in DOMAIN RawDataLines : Len(RawDataLines[i]) >= 6)
    => /\ Len(OutRows) = Len(RawDataLines)
       /\ \A i \in DOMAIN RawDataLines : \A c \in FrameColumns :
             OutRows[i][c] = RawDataLines[i][c]

\* C1 amended: when every data line of the input, stripped of the white
\* space around it as the parser strips it, has at least 6 tab-separated
\* fields, then whatever the order in which the batches complete, output row
\* i equals the i-th stripped data line in CHROM, POS, REF, ALT and QUAL.
C1_OrderAndFramePreserved ==
    (Succeeded /\ \A i \in DOMAIN RawDataLines : Len(Strip(RawDataLines[i])) >= 6)
    => /\ Len(OutRows) = Len(RawDataLines)
       /\ \A i \in DOMAIN RawDataLines : \A c \in FrameColumns :
             OutRows[i][c] = Strip(RawDataLines[i])[c]

\* The second batch was collected before the first, and the table written.
C1_Witness ==
    /\ Succeeded
    /\ ByParallel
    /\ \A i \in DOMAIN RawDataLines : Len(Strip(RawDataLines[i])) >= 6
    /\ Len(batch_results) = 2
    /\ batch_results[1][1] = 1
    /\ \E i \in DOMAIN OutRows : OutRows[i][ID] = RS1_RS2

\* ---- C2 ----------------------------------------------------------------
\* C2: no thread is ever in a lookup (waiting for the permit or sending
\* requests) for a row whose ID is a concrete value, in the parallel and in
\* the sequential strategy; the result of such a row is its current ID.
C2_NoLookupForKnownID ==
    /\ \A w \in Workers :
          th[w].lk # "idle" => IsUnknown(Variant(w)[2][3])
    /\ th[MainThread].lk # "idle" => IsUnknown(Parsed[idx + 1][ID])
    /\ \A w \in Workers : \A k \in DOMAIN th[w].results :
          LET v == batches[th[w].b + 1][k]
          IN  ~IsUnknown(v[2][3]) => th[w].results[k] = <<v[1], v[2][3]>>
    /\ \A n \in DOMAIN fut : \A k \in DOMAIN fut[n].results :
          LET v == batches[n][k]
          IN  ~IsUnknown(v[2][3]) => fut[n].results[k] = <<v[1], v[2][3]>>
    /\ pc = "seq_loop" =>
          \A i \in DOMAIN vcf :
             ~IsUnknown(Parsed[i][ID]) => vcf[i][ID] = Parsed[i][ID]

\* A batch that holds a row with a concrete ID next to a row that was looked
\* up has finished.
C2_Witness ==
    \E n \in DOMAIN fut :
       /\ fut[n].st = "finished"
       /\ \E k \in DOMAIN batches[n] : ~IsUnknown(batches[n][k][2][3])
       /\ \E k \in DOMAIN batches[n] :
             IsUnknown(batches[n][k][2][3]) /\ fut[n].results[k][2] = RS1_RS2

\* ---- C3 ----------------------------------------------------------------
\* C3 (refuted by the code): after a successful run, whichever batches were
\* marked failed, every row whose ID was neither "." nor "NORSID" in the
\* input has the same ID in the output.
C3_KnownIDsUnchanged ==
    Succeeded =>
       \A i \in DOMAIN Parsed :
          ~IsUnknown(Parsed[i][ID]) =>
             i \in DOMAIN OutRows /\ OutRows[i][ID] = Parsed[i][ID]

\* ---- C4 ----------------------------------------------------------------
\* C4 as stated (refuted): the number of data rows written equals the number
\* of non-empty data lines of the input.
C4_OneRowPerDataLine ==
    Succeeded => Len(OutRows) = Len(RawDataLines)

\* C4 amended: on a successful run, whatever lookups or batches failed, the
\* data rows written are, one for one and in order, the non-empty data lines
\* of the input that have at least 6 tab-separated fields once the white
\* space around the line is stripped; the other data lines are dropped.
C4_OneRowPerWellFormedLine ==
    Succeeded =>
       LET kept == {i \in DOMAIN RawDataLines : Len(Strip(RawDataLines[i])) >= 6}
       IN  /\ Len(OutRows) = Cardinality(kept)
           /\ \A i \in kept :
                 LET r == Cardinality({j \in kept : j <= i})
                 IN  OutRows[r][POS] = Strip(RawDataLines[i])[POS]

\* A line was dropped, a row without SAMPLE was kept, and a batch was marked
\* failed.
C4_Witness ==
    /\ Succeeded
    /\ failed # {}
    /\ Len(OutRows) < Len(RawDataLines)
    /\ \E i \in DOMAIN RawDataLines : Len(Strip(RawDataLines[i])) = 6

\* ---- C5 ----------------------------------------------------------------
\* C5: a lookup sends at most 5 requests; it gives up only after the 5th
\* has failed, and then returns None, stored as "NORSID"; when requests 1
\* to 4 fail and the 5th answers with identifiers it returns those.
C5_RetryBudget ==
    /\ Len(lookup.hist) <= 5
    /\ lookup.st # "raised"
    /\ lookup.st = "returned" =>
          /\ (lookup.hist # <<>> /\ lookup.hist[Len(lookup.hist)].raises)
                => /\ Len(lookup.hist) = 5
                   /\ lookup.ret = None
                   /\ lookup.stored = NORSID
          /\ (/\ Len(lookup.hist) = 5
              /\ lookup.hist[5] = [raises |-> FALSE,
                                   IdList |-> << <<"1">>, <<"2">> >>])
                => /\ \A n \in 1..4 : lookup.hist[n].raises
                   /\ lookup.ret = RS1_RS2
                   /\ lookup.stored = RS1_RS2

\* Four requests failed and the fifth answered with identifiers.
C5_Witness ==
    /\ lookup.st = "returned"
    /\ Len(lookup.hist) = 5
    /\ \A n \in 1..4 : lookup.hist[n].raises
    /\ lookup.hist[5].IdList # <<>>

\* ---- C6 ----------------------------------------------------------------
\* C6: no lookup raises to its caller: no batch's future holds an exception,
\* the sequential strategy never fails on a lookup, and what a lookup gives
\* for a row is "NORSID" or a comma-joined list of identifiers.
C6_LookupNeverRaises ==
    /\ \A n \in DOMAIN fut : fut[n].st # "raised"
    /\ result.message[2] # "lookup raised"
    /\ \A w \in Workers : \A k \in DOMAIN th[w].results :
          LET id == th[w].results[k][2]
          IN  IsUnknown(batches[th[w].b + 1][k][2][3])
                 => id = NORSID \/ IsRsList(id)
    /\ pc = "seq_loop" =>
          \A i \in DOMAIN vcf :
             (IsUnknown(Parsed[i][ID]) /\ i <= idx)
                => vcf[i][ID] = NORSID \/ IsRsList(vcf[i][ID])

\* A worker's lookup is over, one of its requests having raised; it gave
\* "NORSID" and the batch goes on to its next lookup.
C6_Witness ==
    \E w \in Workers :
       /\ th[w].lk = "wait"
       /\ th[w].erred
       /\ th[w].results # <<>>
       /\ th[w].results[Len(th[w].results)][2] = NORSID

\* ---- C7 ----------------------------------------------------------------
\* C7: the threads inside the rate-limited section are never more than the
\* permits of the semaphore, and the permits left are those not held.
InSection == {t \in Threads : th[t].lk = "in"}

C7_AtMostKInFlight ==
    /\ Cardinality(InSection) <= RateLimiterPermits
    /\ permits = RateLimiterPermits - Cardinality(InSection)

\* One worker is in the section while another waits for the permit.
C7_Witness ==
    \E t, u \in Workers : th[t].lk = "in" /\ th[u].lk = "wait"

\* ---- C8 ----------------------------------------------------------------
\* C8: a batch marked failed has as results exactly its own rows
\* batch_idx * batch_size .. min((batch_idx + 1) * batch_size, total_rows) - 1,
\* each with "NORSID"; every other collected batch keeps the results its
\* worker produced; and the run goes on to write these results and returns
\* success.
C8_BatchFailureIsolated ==
    /\ \A b \in failed :
          LET lo == b * 2
              hi == Min((b + 1) * 2, Len(vcf))
              rs == Lookup(batch_results, b)
          IN  /\ Len(rs) = hi - lo
              /\ \A k \in DOMAIN rs : rs[k] = <<lo + k - 1, NORSID>>
    /\ \A b \in Keys(batch_results) \ failed :
          Lookup(batch_results, b) = fut[b + 1].results
    /\ failed # {} => pc \in {"collect", "done"}
    /\ (pc = "done" /\ Keys(batch_results) # {}) =>
          /\ result.success
          /\ Len(OutRows) = Len(Parsed)
          /\ \A n \in DOMAIN batch_results : \A k \in DOMAIN batch_results[n][2] :
                LET e == batch_results[n][2][k]
                IN  OutRows[e[1] + 1][ID] = e[2]

\* Of two batches one was marked failed, the other gave an identifier, and
\* the run returned.
C8_Witness ==
    /\ pc = "done"
    /\ Cardinality(failed) = 1
    /\ Len(batch_results) = 2
    /\ \E n \in DOMAIN batch_results :
          /\ batch_results[n][1] \notin failed
          /\ \E k \in DOMAIN batch_results[n][2] :
                batch_results[n][2][k][2] = RS1_RS2

\* ---- C9 ----------------------------------------------------------------
\* C9: the call returns the result of the parallel strategy without a run of
\* the sequential one, or, the parallel strategy having raised, the result
\* of exactly one run of the sequential strategy; a failure of the
\* sequential strategy is returned as success=False with its cause.
C9_FallbackOnce ==
    /\ seqRuns <= 1
    /\ pc \in {"start", "collect", "fallback"} => seqRuns = 0
    /\ pc = "seq_loop" => seqRuns = 1
    /\ pc = "done" =>
          \/ /\ seqRuns = 0
             /\ result.success
             /\ ByParallel
          \/ /\ seqRuns = 1
             /\ result.success
             /\ result.message = <<"Sequential annotation complete", "">>
             /\ out = WriteVcf(file, vcf)
          \/ /\ seqRuns = 1
             /\ ~result.success
             /\ result.message[1] = "Sequential annotation failed"
             /\ result.message[2] # ""

\* The parallel strategy raised when it wrote, and the sequential strategy
\* returned a table with an identifier.
C9_Witness ==
    /\ pc = "done"
    /\ seqRuns = 1
    /\ result.success
    /\ reported # <<>>
    /\ \E i \in DOMAIN OutRows : OutRows[i][ID] = RS1_RS2

\* ---- C10 ---------------------------------------------------------------
\* C10 (refuted by the code): after a successful annotation of a table
\* whose rows carry an identifier or ".", every row that had an identifier
\* still has it, every other row has "NORSID" or a comma-joined list of
\* "rs" identifiers, and no row has ".".
C10_AnnotatedTable ==
    (Succeeded /\ \A i \in DOMAIN Parsed : Parsed[i][ID] # NORSID)
    => /\ Len(OutRows) = Len(Parsed)
       /\ \A i \in DOMAIN Parsed :
             /\ OutRows[i][ID] # DOT
             /\ IF IsUnknown(Parsed[i][ID])
                THEN OutRows[i][ID] = NORSID \/ IsRsList(OutRows[i][ID])
                ELSE OutRows[i][ID] = Parsed[i][ID]

\* ---- C11
\* For every chromosome number n of 1..21 and every output notation,
\* normalize_chrom(_format_chromosome(str(n), notation)) is str(n).
C11_RoundTrip ==
    \A n \in 1..LastAutosome :
       (/\ stage.st = "normalized"
        /\ stage.chrom_id = Str(n)
        /\ stage.format_type \in {"RefSeq", "UCSC", "Ensembl", "numeric"})
       => stage.normalized = Str(n)

\* ---- C12
\* For every chromosome number n of 1..21, _format_chromosome gives the same
\* string for the bare, the "chr" and the RefSeq notation of n: NC_0000nn.10
\* for RefSeq, "chr" and n without leading zeros for UCSC, n without leading
\* zeros for Ensembl and numeric.
CanonicalToken(n, format_type) ==
    CASE format_type = "RefSeq" -> NC_0000 \o ZeroPad(Str(n), 2) \o DOT_10
      [] format_type = "UCSC" -> CHR \o Str(n)
      [] OTHER -> Str(n)

C12_SameForEveryNotation ==
    \A n \in 1..LastAutosome, notation \in Notations :
       (/\ stage.st \in {"formatted", "normalized"}
        /\ stage.chrom_id = Notation(n, notation)
        /\ stage.format_type \in {"RefSeq", "UCSC", "Ensembl", "numeric"})
       => stage.formatted = CanonicalToken(n, stage.format_type)

\* ---- C16
\* The lines after the column line of the validated file, its data rows (the
\* lines that are not blank), and whether the column line declares every
\* required column.
AfterColumnLine(lines) ==
    LET at == CHOOSE i \in 1..Len(lines) :
                 /\ IsColumnLine(lines[i])
                 /\ \A j \in 1..(i - 1) : ~IsColumnLine(lines[j])
    IN  SubSeq(lines, at + 1, Len(lines))

DataRows(lines) == SelectSeq(AfterColumnLine(lines), NonBlank)

DeclaresRequired(lines) ==
    /\ \E i \in 1..Len(lines) : IsColumnLine(lines[i])
    /\ \A r \in 1..Len(required_columns) :
          \E i \in 1..Len(lines), c \in 1..7 :
             /\ IsColumnLine(lines[i])
             /\ c <= Len(lines[i])
             /\ lines[i][c] = required_columns[r]

RowDefectReported ==
    /\ ~stage.ret.is_valid
    /\ stage.ret.error_message \in {"insufficient columns",
                                    "POS column must be numeric"}

\* A row as written in the file has fewer than 7 fields or a POS that is
\* not an integer.
RawDefect(row) == Len(row) < 7 \/ ~IsIntString(row[2])

\* The same with the fields counted after line.strip().
StrippedDefect(row) == Len(Strip(row)) < 7 \/ ~IsIntString(Strip(row)[2])

PositionsOf(lines) ==
    [i \in 1..Len(DataRows(lines)) |-> IntOf(DataRows(lines)[i][2])]

\* modify_vcf_ces1a2_ces1 maps every position p to 55758218 + p when
\* p < 2358, to 55834270 - (72745 - p) when p > 32634, and to p otherwise;
\* 2357 becomes 55760575, 2358 and 32634 stay, 32635 becomes 55794160.
C13_PositionMap ==
    (stage.st = "transform B" /\ stage.ret.written)
    => LET p == PositionsOf(stage.input_vcf)
           q == PositionsOf(stage.ret.output_vcf)
           written == DataRows(stage.ret.output_vcf)
       IN  /\ Len(q) = Len(p)
           /\ \A i \in 1..Len(p) :
                 /\ p[i] < 2358 => q[i] = 55758218 + p[i]
                 /\ p[i] > 32634 => q[i] = 55834270 - (72745 - p[i])
                 /\ (2358 <= p[i] /\ p[i] <= 32634) => q[i] = p[i]
                 /\ p[i] = 2357 => written[i][2] = <<"5", "5", "7", "6", "0", "5", "7", "5">>
                 /\ p[i] = 32635 => written[i][2] = <<"5", "5", "7", "9", "4", "1", "6", "0">>

\* Transform B has written a file of the positions 2357 and 2358.
C13_Witness ==
    /\ stage.st = "transform B"
    /\ stage.ret.written
    /\ PositionsOf(stage.input_vcf) = <<2357, 2358>>
    /\ PositionsOf(stage.ret.output_vcf) = <<55760575, 2358>>

\* ---- C14
\* The integer positions of the rows of a file.
RealPositions(lines) ==
    {IntOf(DataRows(lines)[i][2]) :
        i \in {j \in 1..Len(DataRows(lines)) : IsIntString(DataRows(lines)[j][2])}}

FailsAt(equation, p) ==
    Eval(equation, p).t = "raise" \/ Eval(equation, p).num < 0

\* apply_custom_modification either rejects the transform and writes no
\* file, or writes a file in which every position is a non-negative integer,
\* the value of the expression at the input position; it rejects whenever
\* the expression does not evaluate or is negative at a test position or at
\* a position of the input file.
C14_AllOrNothing ==
    stage.st = "custom"
    => /\ \/ ~stage.ret.success /\ ~stage.ret.written
          \/ /\ stage.ret.success
             /\ stage.ret.written
             /\ LET p == PositionsOf(stage.input_vcf)
                    q == PositionsOf(stage.ret.output_vcf)
                IN  /\ Len(q) = Len(p)
                    /\ \A i \in 1..Len(p) :
                          LET v == Eval(stage.equation, p[i])
                          IN  /\ q[i] >= 0
                              /\ v.t # "raise"
                              /\ q[i] * v.den = v.num
       /\ (\E p \in {test_positions[i] : i \in 1..Len(test_positions)}
                    \cup RealPositions(stage.input_vcf) :
              FailsAt(stage.equation, p))
          => ~stage.ret.success

\* ---- C15
\* The expression mentions a name other than x.
RECURSIVE MentionsOtherName(_)
MentionsOtherName(e) ==
    CASE e.op = "name" -> TRUE
      [] e.op \in {"x", "lit", "empty", "syntax error"} -> FALSE
      [] OTHER -> MentionsOtherName(e.l) \/ MentionsOtherName(e.r)

\* validate_equation rejects every expression that mentions a name other
\* than x, whatever the name.
C15_OnlyX ==
    (stage.st = "equation" /\ MentionsOtherName(stage.equation))
    => ~stage.ret.is_valid

\* ---- C17
\* clean_vcf accepts a file whose rows have 6, 7, 8 or 10 columns and writes
\* rows of exactly the 7 columns CHROM, POS, ID, REF, ALT, QUAL, SAMPLE, the
\* first 6 being those of the input row.
C17_SevenColumns ==
    (/\ stage.st = "clean"
     /\ DataRows(stage.input_vcf) # <<>>
     /\ \A i \in 1..Len(DataRows(stage.input_vcf)) :
           Len(DataRows(stage.input_vcf)[i]) \in {6, 7, 8, 10})
    => /\ ~stage.ret.raised
       /\ stage.ret.written
       /\ \E i \in 1..Len(stage.ret.output_vcf) :
             stage.ret.output_vcf[i] = CleanedColumnLine
       /\ LET rows == DataRows(stage.input_vcf)
              cleaned == SelectSeq(stage.ret.output_vcf, IsCsvRow)
          IN  /\ Len(cleaned) = Len(rows)
              /\ \A i \in 1..Len(rows) :
                    /\ Len(cleaned[i]) = 7
                    /\ SubSeq(cleaned[i], 1, 6) = SubSeq(rows[i], 1, 6)

\* ---- C18
\* Every stage that writes a table (transform A, transform B, the custom
\* transform, clean) writes the header lines of its input as they are and
\* in their order, all of them before the first data line.
C18_HeadersVerbatim ==
    (/\ stage.st \in {"transform A", "transform B", "custom", "clean"}
     /\ stage.ret.written)
    => /\ HeaderLines(stage.ret.output_vcf) = HeaderLines(stage.input_vcf)
       /\ \A i, j \in 1..Len(stage.ret.output_vcf) :
             (IsHeader(stage.ret.output_vcf[i]) /\ ~IsHeader(stage.ret.output_vcf[j]))
             => i < j

\* ---- C19
\* The rows of the table a report reads.
TableOf(lines) == SelectSeq(lines, IsCsvRow)

\* The QUAL of a row is a number and at least the threshold.
QualAtLeast(row, threshold) ==
    /\ IsNumberString(row[QUAL])
    /\ Number(row[QUAL]).num >= threshold * Number(row[QUAL]).den

\* filter_significant_rsids keeps a row if and only if its QUAL is a number
\* that is at least the threshold, the threshold itself included; a row
\* whose QUAL is "." is kept for no threshold and does not make the filter
\* raise.
C19_QualFilter ==
    stage.st = "significant"
    => LET rows == TableOf(stage.input_vcf)
           Kept(row) == QualAtLeast(row, stage.qual_threshold)
           kept == SelectSeq(rows, Kept)
           written == stage.ret.output_vcf
       IN  /\ ~stage.ret.raised
           /\ stage.ret.written
           /\ Len(written) = Len(kept)
           /\ \A i \in 1..Len(kept) :
                 \A c \in 1..7 : written[i][c] = ReadCell(kept[i][c])
           /\ \A i \in 1..Len(written) : written[i][QUAL] # DOT

\* A table of a row of QUAL "." and a row of QUAL 20, filtered at the
\* default threshold 20: the row of QUAL 20 alone is written.
C19_Witness ==
    /\ stage.st = "significant"
    /\ stage.qual_threshold = 20
    /\ Len(TableOf(stage.input_vcf)) = 2
    /\ TableOf(stage.input_vcf)[1][QUAL] = DOT
    /\ TableOf(stage.input_vcf)[2][QUAL] = F20
    /\ Len(stage.ret.output_vcf) = 1
    /\ stage.ret.output_vcf[1][QUAL] = F20

\* ---- C20
\* The counts of generate_summary_report: with_rsid + without_rsid is
\* total_variants and reliable_variants is at most with_rsid, with_rsid
\* being the number of rows whose ID begins with "rs" and reliable_variants
\* the number of those whose QUAL is a number of at least 20.
C20_SummaryCounts ==
    (stage.st = "summary" /\ ~stage.ret.raised)
    => LET rows == TableOf(stage.input_vcf)
           WithRs(row) == StartsWith(row[ID], RS)
           RsAndQual(row) == StartsWith(row[ID], RS) /\ QualAtLeast(row, 20)
       IN  /\ stage.ret.total_variants = Len(rows)
           /\ stage.ret.with_rsid + stage.ret.without_rsid
                 = stage.ret.total_variants
           /\ stage.ret.reliable_variants <= stage.ret.with_rsid
           /\ stage.ret.with_rsid = Len(SelectSeq(rows, WithRs))
           /\ stage.ret.reliable_variants = Len(SelectSeq(rows, RsAndQual))

\* The report of a table of two rows of QUAL 30, one with an identifier and
\* one without.
C20_Witness ==
    /\ stage.st = "summary"
    /\ ~stage.ret.raised
    /\ stage.ret.total_variants = 2
    /\ stage.ret.with_rsid = 1
    /\ stage.ret.without_rsid = 1
    /\ stage.ret.reliable_variants = 1
    /\ \A i \in 1..2 : TableOf(stage.input_vcf)[i][QUAL] = F30

\* ---- C23
\* C23 (refuted by the code): for every notation of the chromosome n of 1..21
\* passed in the CHROM field (bare "n", "chr" then n, RefSeq NC_0000nn.10),
\* the query of fetch_rsid_entrez is "{n}[CHR] AND {position}[POS]", its
\* chromosome term the bare number n, without prefix and without leading
\* zeros.
C23_QueryBareNumber ==
    lookup.st # "idle" =>
       \A n \in 1..LastAutosome : \A notation \in Notations :
          lookup.chromosome = Notation(n, notation)
             => lookup.query = Str(n) \o CHR_AND \o lookup.position \o POS_

\* ---- C25
\* C25: every value passed to the observer is an integer of 0..100; while
\* the parallel strategy runs and when it has returned the values are
\* non-decreasing, and once every batch is collected (completed or marked
\* failed) the last value is 100; in the sequential strategy the last value
\* is 100 once the last row is done.
AllCollected == Keys(batch_results) = {n - 1 : n \in DOMAIN fut}

LastReported == reported[Len(reported)]

C25_ProgressValues ==
    /\ \A n \in DOMAIN reported : reported[n] \in 0..100
    /\ (pc = "collect" \/ (pc = "done" /\ seqRuns = 0)) =>
          /\ \A n \in 1..(Len(reported) - 1) : reported[n] <= reported[n + 1]
          /\ (observer /\ AllCollected) =>
                reported # <<>> /\ LastReported = 100
    /\ (observer /\ pc = "seq_loop" /\ idx = total_rows) =>
          reported # <<>> /\ LastReported = 100
    /\ (observer /\ pc = "done" /\ seqRuns = 1 /\ result.success) =>
          reported # <<>> /\ LastReported = 100

\* Two batches were collected, the first marked failed because the observer
\* raised, and the parallel strategy returned.
C25_Witness ==
    /\ Succeeded
    /\ ByParallel
    /\ observer
    /\ reported = <<50, 100>>
    /\ failed # {}

\* ---- C29
\* C29 (refuted by the code): the annotated_count of a successful run is the
\* number of rows whose ID was "." or "NORSID" in the input and begins with
\* "rs" in the output written, whatever the lookups gave, in whatever order
\* the batches completed, and also when a batch was marked failed or the
\* observer raised.
NewlyAnnotated ==
    {i \in DOMAIN Parsed :
        /\ IsUnknown(Parsed[i][ID])
        /\ i \in DOMAIN OutRows
        /\ StartsWith(OutRows[i][ID], RS)}

C29_AnnotatedCount ==
    Succeeded => result.annotated_count = Cardinality(NewlyAnnotated)

\* ---- C26
\* C26: against a service that answers each query with a fixed answer, when
\* the parallel strategy returned success with no batch marked failed and
\* the sequential strategy returned success on the same input, the two wrote
\* the same output file and returned the same total_variants and the same
\* annotated_count.
BothReturned ==
    /\ stage.st = "service"
    /\ stage.parallel.returned
    /\ stage.parallel.failed = {}
    /\ pc = "done"
    /\ result.success

C26_SameOutput ==
    BothReturned =>
       /\ out = stage.parallel.out
       /\ result.total_variants = stage.parallel.result.total_variants
       /\ result.annotated_count = stage.parallel.result.annotated_count

\* Both strategies annotated a file of three rows, in two batches: a row got
\* identifiers, a row kept the identifier it had, and the count is not that
\* of the rows.
C26_Witness ==
    /\ BothReturned
    /\ Len(OutRows) = 3
    /\ result.annotated_count \in 1..2
    /\ \E i \in DOMAIN OutRows : OutRows[i][ID] = RS1_RS2
    /\ \E i \in DOMAIN OutRows : OutRows[i][ID] = FRS9

\* ---- C24
\* C24: any two consecutive requests of one thread start at least the
\* minimum interval apart (5 ticks of 0.1 s in core/entrez_api.py, 3 in
\* rsID_retrieval.py), the later request being a retry after a failed
\* attempt of the same lookup or the first request of the next lookup.
C24_MinSpacing ==
    (stage.st = "spacing" /\ stage.gap # NoGap)
       => stage.gap >= MinInterval(stage.impl)

\* The first request of a lookup started exactly the minimum interval after
\* the last request of the lookup before: the thread had to sleep.
C24_Witness ==
    /\ stage.st = "spacing"
    /\ stage.impl = "core"
    /\ stage.gap = min_interval
    /\ stage.slept
    /\ ~stage.retry

\* ---- C30
\* C30: when every request sent eventually returns or raises, the call
\* eventually returns; no lookup sends more than 5 requests; when the call
\* has returned every permit is back in the rate limiter, whichever way each
\* lookup ended; and no thread waits for a permit for ever: from some point
\* on the call has returned and no thread is in a lookup or waits for one.
C30_EventuallyReturns ==
    /\ [](\A t \in Threads : th[t].attempt < max_retries)
    /\ [](pc = "done" => permits = RateLimiterPermits)
    /\ <>[](pc = "done" /\ \A t \in Threads : th[t].lk = "idle")

\* The call has returned after a lookup that gave up on its 5th request and
\* a lookup that found identifiers.
C30_Witness ==
    /\ pc = "done"
    /\ result.success
    /\ Len(OutRows) >= 2
    /\ \E i \in DOMAIN OutRows : OutRows[i][ID] = RS1_RS2
    /\ \E i \in DOMAIN OutRows : OutRows[i][ID] = NORSID

\* ---- C21
\* C21 (refuted by the code): process_vcf and run_sandbox_pipeline never
\* raise to their caller; when a stage has failed after the inputs were
\* accepted (the results directory, the transform, the clean, the
\* annotation, a filter, the summary) the dict returned has success False,
\* an error message and the manifest of the files.
InPipeline == stage.st = "pipeline"

PipelineReturned == InPipeline /\ stage.at = "returned"

InputsAccepted ==
    stage.a.kind = "process_vcf" => validate_inputs(stage.a) = <<>>

C21_NeverRaises ==
    InPipeline =>
       /\ stage.at # "raised"
       /\ (PipelineReturned /\ pc = "done" /\ ~result.success)
             => ~stage.ret.success
       /\ (PipelineReturned /\ ~stage.ret.success /\ InputsAccepted)
             => stage.ret.errors # <<>> /\ stage.ret.files = "paths"

\* ---- C22
\* C22: when the inputs of process_vcf have a defect (the email has no "@",
\* the file is missing, has another extension, lacks a required column or
\* has a malformed early row, the output directory cannot be created, the
\* modification type is unknown, the offset of CES1P1-CES1 is missing or not
\* positive), no transform is applied, no file is written, no lookup is sent
\* and the observer is not called, and the dict returned has success False
\* and lists one error for each kind of defect, no more.
InputDefects(a) ==
    (IF ~\E i \in 1..Len(a.email) : a.email[i] = "@"
     THEN {"Valid email address required for Entrez API"} ELSE {})
    \cup (IF ~a.exists \/ ~EndsWith(Lower(a.name), DOT_VCF)
             \/ ~validate_vcf_file(a.lines).is_valid
          THEN {"Invalid VCF file"} ELSE {})
    \cup (IF a.output_dir = "cannot create"
          THEN {"Cannot create output directory"} ELSE {})
    \cup (IF a.modification_type \notin {"CES1P1-CES1", "CES1A2-CES1"}
          THEN {"Invalid modification type"} ELSE {})
    \cup (IF a.modification_type = "CES1P1-CES1"
             /\ (a.pos = <<>> \/ a.pos[1] < 1)
          THEN {"Position modifier must be a positive integer for CES1P1-CES1"}
          ELSE {})

C22_RejectedBeforeAnyWork ==
    (InPipeline /\ stage.a.kind = "process_vcf" /\ InputDefects(stage.a) # {})
    => /\ stage.at \in {"called", "returned"}
       /\ pc = "none"
       /\ out = <<>>
       /\ reported = <<>>
       /\ stage.done = <<>>
       /\ stage.at = "returned" =>
             /\ ~stage.ret.success
             /\ {stage.ret.errors[n] : n \in DOMAIN stage.ret.errors}
                   = InputDefects(stage.a)
             /\ Len(stage.ret.errors) = Cardinality(InputDefects(stage.a))

\* A call with an email without "@", a file with another extension, an
\* unknown modification type and a directory that cannot be created has
\* returned its four errors.
C22_Witness ==
    /\ PipelineReturned
    /\ stage.a.kind = "process_vcf"
    /\ stage.a.name = A_TXT
    /\ Len(stage.ret.errors) = 4
    /\ ~stage.ret.success

\* ---- C27
\* C27 (refuted by the code): over one call of process_vcf or
\* run_sandbox_pipeline with an observer, the values passed to the observer,
\* those of the annotation stage among them, never decrease, and the last
\* one is 100 when the call returns success.
C27_ProgressMonotone ==
    InPipeline =>
       /\ \A n \in 1..(Len(reported) - 1) : reported[n] <= reported[n + 1]
       /\ (PipelineReturned /\ stage.ret.success /\ stage.a.with_observer)
             => reported # <<>> /\ reported[Len(reported)] = 100

\* ---- C28
\* C28 (refuted by the code): process_vcf returns success True only if the
\* annotation stage returned success True; when the annotation failed the
\* filters and the summary are not run on the file it left.
C28_SuccessNeedsAnnotation ==
    (PipelineReturned /\ stage.a.kind = "process_vcf")
    => /\ stage.ret.success => result.success
       /\ (pc = "done" /\ ~result.success) =>
             \A n \in DOMAIN stage.done :
                stage.done[n] \notin {"filter", "significant", "summary"}

====
